---------------------------- MODULE Spec2Model ----------------------------
(***************************************************************************)
(* espansoGUI (src/src/app.rs): the Elm-style update loop of the editor,   *)
(* its edit session (original/edited copies of a match file and of the     *)
(* configuration), and the files it reads and writes.                      *)
(*                                                                         *)
(* Strings are TLA+ strings; their characters are read with SubSeq, so     *)
(* trimming, suffix tests and path building are computed, not tabulated.   *)
(***************************************************************************)
EXTENDS Naturals, Sequences, FiniteSets, TLC

(***************************************************************************)
(* Bounds of the model.                                                    *)
(***************************************************************************)
\* Messages handled in one run of the application.
MaxSteps == 5
\* Rows the "+ Add" button may grow the edited file to.
MaxPairs == 2
\* Entries of a match file / of a sequence handed to the store functions.
MaxDocLen == 2

(***************************************************************************)
(* Strings.                                                                *)
(***************************************************************************)
Char(s, i) == SubSeq(s, i, i)

LastChar(s) == SubSeq(s, Len(s), Len(s))

DropLast(s, n) == SubSeq(s, 1, Len(s) - n)

IsWhitespace(c) == c = " "

RECURSIVE TrimStart(_)
TrimStart(s) ==
    IF Len(s) > 0 /\ IsWhitespace(Char(s, 1)) THEN TrimStart(Tail(s)) ELSE s

RECURSIVE TrimEnd(_)
TrimEnd(s) ==
    IF Len(s) > 0 /\ IsWhitespace(LastChar(s)) THEN TrimEnd(DropLast(s, 1)) ELSE s

\* str::trim
Trim(s) == TrimEnd(TrimStart(s))

\* str::is_empty
IsEmpty(s) == Len(s) = 0

\* str::ends_with
EndsWith(s, suffix) ==
    /\ Len(s) >= Len(suffix)
    /\ SubSeq(s, Len(s) - Len(suffix) + 1, Len(s)) = suffix

\* str::starts_with
StartsWith(s, prefix) ==
    /\ Len(s) >= Len(prefix)
    /\ SubSeq(s, 1, Len(prefix)) = prefix

\* str::trim_end_matches: the suffix is removed as often as it occurs.
RECURSIVE TrimEndMatches(_, _)
TrimEndMatches(s, suffix) ==
    IF Len(suffix) > 0 /\ EndsWith(s, suffix)
    THEN TrimEndMatches(DropLast(s, Len(suffix)), suffix)
    ELSE s

\* Position of the last occurrence of the character c in s, 0 if none.
RECURSIVE LastIndexOf(_, _)
LastIndexOf(s, c) ==
    IF Len(s) = 0 THEN 0
    ELSE IF LastChar(s) = c THEN Len(s)
    ELSE LastIndexOf(DropLast(s, 1), c)

(***************************************************************************)
(* Paths and the file system.  A path is a string; the file system holds   *)
(* canonical absolute paths.                                               *)
(***************************************************************************)
\* Repeated separators name the same file ("/e//match" is "/e/match").
RECURSIVE Canon(_)
Canon(p) ==
    IF Len(p) <= 1 THEN p
    ELSE IF Char(p, 1) = "/" /\ Char(p, 2) = "/" THEN Canon(Tail(p))
    ELSE Char(p, 1) \o Canon(Tail(p))

\* A trailing separator does not change the file a path names.
CanonPath(p) ==
    LET c == Canon(p)
    IN IF Len(c) > 1 /\ LastChar(c) = "/" THEN DropLast(c, 1) ELSE c

\* Path::parent of a canonical path
Parent(p) ==
    LET k == LastIndexOf(p, "/")
    IN IF k <= 1 THEN SubSeq(p, 1, k) ELSE SubSeq(p, 1, k - 1)

\* Path::file_name of a canonical path
FileName(p) == SubSeq(p, LastIndexOf(p, "/") + 1, Len(p))

\* Path::extension: what follows the last '.' of the file name, unless the
\* name has no '.' or starts with its only '.'.
HasExtension(p) == LastIndexOf(FileName(p), ".") > 1

Extension(p) ==
    LET n == FileName(p)
    IN SubSeq(n, LastIndexOf(n, ".") + 1, Len(n))

\* Path::file_stem
FileStem(p) ==
    LET n == FileName(p)
    IN IF HasExtension(p) THEN SubSeq(n, 1, LastIndexOf(n, ".") - 1) ELSE n

\* PathBuf::join
PathJoin(base, comp) ==
    IF StartsWith(comp, "/") THEN comp
    ELSE IF IsEmpty(base) THEN comp
    ELSE IF LastChar(base) = "/" THEN base \o comp
    ELSE base \o "/" \o comp


(***************************************************************************)
(* Option<T>: None is the empty tuple, Some(v) the one-element tuple.      *)
(***************************************************************************)
None == <<>>

Some(v) == <<v>>

IsSome(o) == o /= None

\* Option::or with its two sides exchanged.
OptionOrSecondFirst(a, b) == IF IsSome(b) THEN b ELSE a

\* Option::or
OptionOr(a, b) == IF IsSome(a) THEN a ELSE b

(***************************************************************************)
(* File contents.  A file holds a YAML mapping (key -> value), or text     *)
(* that is not YAML of any shape the readers accept, or nothing but blank  *)
(* lines and comments.                                                     *)
(***************************************************************************)
Garbage == [kind |-> "garbage", map |-> <<>>]

EmptyText == [kind |-> "empty", map |-> <<>>]

Doc(m) == [kind |-> "yaml", map |-> m]

\* The values typed into the trigger and replace text fields.
Str == {"", " ", "a", "b"}

\* YamlPairs, and the record a fresh row holds (YamlPairs::default()).
YamlPairs(t, r) == [trigger |-> t, replace |-> r]

YamlPairsDefault == YamlPairs("", "")

\* EspansoYaml::default()
EspansoYamlDefault == [matches |-> <<>>]

\* Serialize for YamlPairs (derived): a mapping with the two fields in
\* declaration order.
SerializePair(p) == << <<"trigger", p.trigger>>, <<"replace", p.replace>> >>

\* Serialize for EspansoYaml (derived): the key matches holding the sequence.
SerializeEspansoYaml(y) ==
    Doc("matches" :> [i \in 1..Len(y.matches) |-> SerializePair(y.matches[i])])

\* The values a mapping node gives for a key.
ValuesOf(node, key) == SelectSeq(node, LAMBDA kv : kv[1] = key)

\* Deserialize for YamlPairs (derived): each field exactly once; other keys
\* are ignored.
PairParses(node) ==
    /\ Len(ValuesOf(node, "trigger")) = 1
    /\ Len(ValuesOf(node, "replace")) = 1

DeserializePair(node) ==
    YamlPairs(ValuesOf(node, "trigger")[1][2], ValuesOf(node, "replace")[1][2])

\* Deserialize for EspansoYaml (derived): fails on text that is not YAML, on
\* a mapping without matches, and on an entry of the wrong shape.
EspansoYamlParses(content) ==
    /\ content.kind = "yaml"
    /\ "matches" \in DOMAIN content.map
    /\ \A i \in 1..Len(content.map["matches"]) :
           PairParses(content.map["matches"][i])

DeserializeEspansoYaml(content) ==
    [matches |-> [i \in 1..Len(content.map["matches"]) |->
                      DeserializePair(content.map["matches"][i])]]

(***************************************************************************)
(* The file system: the directories are fixed, the files are state.        *)
(***************************************************************************)
\* /e and /z have config/ and match/, /x lacks config/, /y lacks match/, in
\* /d the name config/default.yml belongs to a directory, /f has match/ only
\* (its config may be a regular file); /e/match has the subfolder sub/.
Directories ==
    {"/", "/e", "/e/config", "/e/match", "/e/match/sub", "/x", "/x/match",
     "/y", "/y/config", "/z", "/z/config", "/z/match",
     "/d", "/d/config", "/d/match", "/d/config/default.yml", "/f", "/f/match"}

IsDir(p) == CanonPath(p) \in Directories

IsFile(fs, p) == CanonPath(p) \in DOMAIN fs

\* OpenOptions::new().write(true).truncate(true).create(true).open(path)
CanOpenForWrite(fs, p) ==
    /\ CanonPath(p) \notin Directories
    /\ Parent(CanonPath(p)) \in Directories
    /\ FileName(CanonPath(p)) /= ""

WriteFile(fs, p, content) ==
    [q \in DOMAIN fs \cup {CanonPath(p)} |->
        IF q = CanonPath(p) THEN content ELSE fs[q]]

\* std::fs::remove_file
RemoveFile(fs, p) == [q \in DOMAIN fs \ {CanonPath(p)} |-> fs[q]]

ReadFile(fs, p) == fs[CanonPath(p)]

(***************************************************************************)
(* The configuration.  Of the options of YAMLConfig the model keeps the    *)
(* two picker fields, one toggle, the delay with its legacy key, and the   *)
(* two options entered as text that is parsed: the word separators (a list *)
(* of strings) and the keyboard layout (a map of strings).                 *)
(***************************************************************************)
YAMLConfigFields ==
    {"backend", "toggle_key", "enable", "key_delay", "backspace_delay",
     "word_separators", "keyboard_layout"}

ParsedConfigFields ==
    {"backend", "toggle_key", "enable", "key_delay", "word_separators", "keyboard_layout"}

\* YAMLConfig::parse_from_str: every field is #[serde(default)], unknown keys
\* are ignored, and text of blank lines and comments parses as a mapping
\* that sets none of the fields.
YAMLConfigParses(content) == content.kind \in {"yaml", "empty"}

ParseYAMLConfig(content) ==
    [f \in YAMLConfigFields |->
        IF f \in DOMAIN content.map THEN Some(content.map[f]) ELSE None]

\* The conversion with enable filled in when the file does not set it.
TryFromYAMLConfigEnableFilled(y) ==
    [backend    |-> y["backend"],
     toggle_key |-> y["toggle_key"],
     enable     |-> OptionOr(y["enable"], Some(TRUE)),
     key_delay  |-> OptionOr(y["key_delay"], y["backspace_delay"]),
     word_separators |-> y["word_separators"],
     keyboard_layout |-> y["keyboard_layout"]]

\* TryFrom<YAMLConfig> for ParsedConfig.  Of keyboard_layout it keeps the
\* entries whose key and value are strings, which is every entry of the maps
\* of the model.
TryFromYAMLConfig(y) ==
    [backend    |-> y["backend"],
     toggle_key |-> y["toggle_key"],
     enable     |-> y["enable"],
     key_delay  |-> OptionOr(y["key_delay"], y["backspace_delay"]),
     word_separators |-> y["word_separators"],
     keyboard_layout |-> y["keyboard_layout"]]

\* ParsedConfig::default(): every option unset.
ParsedConfigDefault ==
    [backend |-> None, toggle_key |-> None, enable |-> None, key_delay |-> None,
     word_separators |-> None, keyboard_layout |-> None]

\* ParsedConfig::load(path): reads the file, parses it as YAMLConfig and
\* converts it; Err when the file cannot be read or parsed.
ParsedConfigLoads(fs, path) ==
    /\ IsFile(fs, path)
    /\ YAMLConfigParses(ReadFile(fs, path))

ParsedConfigLoad(fs, path) == TryFromYAMLConfig(ParseYAMLConfig(ReadFile(fs, path)))

\* Serialize for ParsedConfig: the options that are Some, under their names.
SerializeParsedConfig(c) ==
    Doc([f \in {g \in ParsedConfigFields : IsSome(c[g])} |-> c[f][1]])

(***************************************************************************)
(* The store functions of app.rs.  Each returns what it leaves behind; a   *)
(* panic (expect / unwrap on an Err) is reported by the *Panics predicate. *)
(***************************************************************************)
\* read_to_triggers: File::open(..).expect, serde_yaml::from_reader(..).expect
ReadToTriggersPanics(fs, path) ==
    \/ ~IsFile(fs, path)
    \/ ~EspansoYamlParses(ReadFile(fs, path))

\* The filter of read_to_triggers with the fields trimmed first.
KeepsPairTrimmed(pair) == ~IsEmpty(Trim(pair.trigger)) /\ ~IsEmpty(Trim(pair.replace))

\* read_to_triggers: the entries with an empty trigger or replace are dropped.
KeepsPair(pair) == ~IsEmpty(pair.trigger) /\ ~IsEmpty(pair.replace)

ReadToTriggers(fs, path) ==
    [matches |-> SelectSeq(DeserializeEspansoYaml(ReadFile(fs, path)).matches, KeepsPair)]

\* write_from_triggers
WriteFromTriggersPanics(fs, path) == ~CanOpenForWrite(fs, path)

\* write_from_triggers opening the file without truncate(true): what the old
\* file holds beyond the new entries stays.
WriteFromTriggersNoTruncate(fs, path, edited) ==
    LET fresh == SerializeEspansoYaml(edited).map["matches"]
        old == IF IsFile(fs, path) /\ EspansoYamlParses(ReadFile(fs, path))
               THEN ReadFile(fs, path).map["matches"] ELSE <<>>
    IN WriteFile(fs, path,
                 Doc("matches" :> (fresh \o SubSeq(old, Len(fresh) + 1, Len(old)))))

WriteFromTriggers(fs, path, edited) == WriteFile(fs, path, SerializeEspansoYaml(edited))

\* create_new_yml_file
CreateNewYmlFilePanics(fs, path) == ~CanOpenForWrite(fs, path)

CreateNewYmlFile(fs, path) == WriteFile(fs, path, SerializeEspansoYaml(EspansoYamlDefault))

\* overwrite_config
OverwriteConfigPanics(fs, path) == ~CanOpenForWrite(fs, path)

OverwriteConfig(fs, path, config) == WriteFile(fs, path, SerializeParsedConfig(config))

\* valid_espanso_dir without the look at config/default.yml.
ValidEspansoDirNoYml(fs, selected_dir) ==
    IsDir(PathJoin(selected_dir, "config")) /\ IsDir(PathJoin(selected_dir, "match"))

\* valid_espanso_dir
ValidEspansoDir(fs, selected_dir) ==
    LET config_exists     == IsDir(PathJoin(selected_dir, "config"))
        match_exists      == IsDir(PathJoin(selected_dir, "match"))
        config_yml_exists == IsFile(fs, PathJoin(selected_dir, "config/default.yml"))
    IN config_exists /\ match_exists /\ config_yml_exists

\* The order in which WalkDir comes upon the files the model can hold.
WalkOrder ==
    << "/e/match/f1.yml", "/e/match/f2.yml", "/e/match/new.yml",
       "/e/match/a+b.yml", "/e/match/My Snippets-1.yml",
       "/e/match/eg-Delete.yml", "/e/match/sub/f1.yml", "/e/match/sub/f3.yml",
       "/x/match/f1.yml" >>

\* get_all_match_file_stems: the stems of the files below match_dir whose
\* extension is yml.
IsBelow(p, dir) ==
    LET d == CanonPath(dir) IN StartsWith(p, d \o "/")

GetAllMatchFileStems(fs, match_dir) ==
    LET found == SelectSeq(WalkOrder, LAMBDA p :
                     /\ p \in DOMAIN fs
                     /\ IsDir(match_dir)
                     /\ IsBelow(p, match_dir)
                     /\ HasExtension(p)
                     /\ Extension(p) = "yml")
    IN [i \in 1..Len(found) |-> FileStem(found[i])]

\* is_valid_file_name: ^[\w\-. ]+$
WordChars ==
    {"a", "b", "c", "d", "e", "f", "g", "h", "i", "j", "k", "l", "m", "n", "o",
     "p", "q", "r", "s", "t", "u", "v", "w", "x", "y", "z",
     "A", "B", "C", "D", "E", "F", "G", "H", "I", "J", "K", "L", "M", "N", "O",
     "P", "Q", "R", "S", "T", "U", "V", "W", "X", "Y", "Z",
     "0", "1", "2", "3", "4", "5", "6", "7", "8", "9", "_"}

\* is_valid_file_name with a pattern that takes any character: ^.+$
IsValidFileNameAnyChar(file_name) == Len(file_name) > 0

IsValidFileName(file_name) ==
    /\ Len(file_name) > 0
    /\ \A i \in 1..Len(file_name) :
           Char(file_name, i) \in WordChars \cup {"-", ".", " "}

(***************************************************************************)
(* The state.  egui is the variant of EGUI ("Panicked" once a handler has  *)
(* panicked and the process is gone); state is the State record of the     *)
(* Loaded variant; files is the disk; egui_data is the preferences file    *)
(* egui_data.json; last is the message update handled last and steps how   *)
(* many it has handled since the application was loaded.                   *)
(***************************************************************************)
VARIABLES egui, state, files, egui_data, last, steps

vars == <<egui, state, files, egui_data, last, steps>>

\* get_default_espanso_dir
DefaultEspansoDir == "/e"

\* A message: its variant and its arguments (those it lacks are left blank).
Msg(type, str, idx, val) == [type |-> type, str |-> str, idx |-> idx, val |-> val]

NoMsg == Msg("", "", 0, None)

\* What a handler leaves behind: the State, the disk, the preferences file,
\* and whether it panicked on the way.
World(st, fs, data, panicked) ==
    [state |-> st, files |-> fs, egui_data |-> data, panicked |-> panicked]

Panic(w) == [w EXCEPT !.panicked = TRUE]

\* State::default()
StateDefault ==
    [espanso_loc         |-> "",
     selected_nav        |-> "",
     directory_invalid   |-> FALSE,
     selected_file       |-> "",
     original_file       |-> EspansoYamlDefault,
     edited_file         |-> EspansoYamlDefault,
     original_config     |-> ParsedConfigDefault,
     edited_config       |-> ParsedConfigDefault,
     match_files         |-> <<>>,
     show_modal          |-> FALSE,
     modal_title         |-> "",
     modal_description   |-> "",
     modal_ok_text       |-> "",
     nav_queue           |-> "",
     show_new_file_input |-> FALSE,
     new_file_name       |-> "",
     file_name_change    |-> ""]

\* read_egui_data, with the fallback of State::new
ReadEguiDataOrDefault(data) == IF IsSome(data) THEN data[1] ELSE DefaultEspansoDir

\* State::new without the screen and the OK label it sets.
StateNewNoScreen(fs, data) == World(StateDefault, fs, data, FALSE)

\* State::new, together with the preferences file it leaves behind
StateNew(fs, data) ==
    LET espanso_dir == ReadEguiDataOrDefault(data)
        fresh == [StateDefault EXCEPT !.selected_nav = "eg-Settings",
                                      !.modal_ok_text = "OK"]
    IN IF ValidEspansoDir(fs, espanso_dir)
       THEN World([fresh EXCEPT
                      !.espanso_loc = espanso_dir,
                      !.match_files =
                          GetAllMatchFileStems(fs, PathJoin(espanso_dir, "match"))],
                  fs, Some(espanso_dir), FALSE)
       ELSE World(fresh, fs, data, FALSE)

(***************************************************************************)
(* The handlers of EGUI::update in the Loaded state, one per message.      *)
(***************************************************************************)
\* Message::ShowModal(title, description, destination)
ShowModal(w, title, description, destination) ==
    [w EXCEPT !.state.modal_title = title,
              !.state.modal_description = description,
              !.state.nav_queue = destination,
              !.state.show_modal = TRUE]

\* The arm "eg-Config" with edited_config cloned before the two picker
\* options are set.
NavigateToConfigClonedFirst(reset, espanso_loc) ==
    LET path == espanso_loc \o "/config/default.yml"
        at == [reset EXCEPT !.state.selected_file = path]
    IN IF ParsedConfigLoads(reset.files, path)
       THEN LET config == ParsedConfigLoad(reset.files, path)
                original == [config EXCEPT
                    !.backend = IF config.backend = None
                                THEN Some("Auto") ELSE config.backend,
                    !.toggle_key = IF config.toggle_key = None
                                   THEN Some("OFF") ELSE config.toggle_key]
            IN [at EXCEPT !.state.original_config = original,
                          !.state.edited_config = config]
       ELSE at

\* Message::NavigateTo(value), the arm "eg-Config": the configuration is
\* loaded, and the two picker options are set in both copies.
NavigateToConfig(reset, espanso_loc) ==
    LET path == espanso_loc \o "/config/default.yml"
        at == [reset EXCEPT !.state.selected_file = path]
    IN IF ParsedConfigLoads(reset.files, path)
       THEN LET config == ParsedConfigLoad(reset.files, path)
                original == [config EXCEPT
                    !.backend = IF config.backend = None
                                THEN Some("Auto") ELSE config.backend,
                    !.toggle_key = IF config.toggle_key = None
                                   THEN Some("OFF") ELSE config.toggle_key]
            IN [at EXCEPT !.state.original_config = original,
                          !.state.edited_config = original]
       ELSE at

\* The arm of a match file without the copy into edited_file.
NavigateToFileEditedNotSet(reset, espanso_loc) ==
    LET path == espanso_loc \o "/match/" \o reset.state.selected_nav \o ".yml"
        at == [reset EXCEPT !.state.selected_file = path]
    IN IF ReadToTriggersPanics(reset.files, path)
       THEN Panic(at)
       ELSE LET original == ReadToTriggers(reset.files, path)
            IN [at EXCEPT !.state.original_file = original,
                          !.state.file_name_change = reset.state.selected_nav]

\* Message::NavigateTo(value), the arm of a match file: the file is read
\* into original_file and copied to edited_file.
NavigateToFile(reset, espanso_loc) ==
    LET path == espanso_loc \o "/match/" \o reset.state.selected_nav \o ".yml"
        at == [reset EXCEPT !.state.selected_file = path]
    IN IF ReadToTriggersPanics(reset.files, path)
       THEN Panic(at)
       ELSE LET original == ReadToTriggers(reset.files, path)
            IN [at EXCEPT !.state.original_file = original,
                          !.state.edited_file = original,
                          !.state.file_name_change = reset.state.selected_nav]

\* Message::NavigateTo(value)
NavigateTo(w, value) ==
    LET espanso_loc == w.state.espanso_loc
        reset == [w EXCEPT !.state.selected_nav = value,
                           !.state.original_file = EspansoYamlDefault,
                           !.state.edited_file = EspansoYamlDefault]
    IN CASE value = "eg-Config" -> NavigateToConfig(reset, espanso_loc)
         [] value = "eg-Settings" -> [reset EXCEPT !.state.selected_file = ""]
         [] value = "eg-About" -> [reset EXCEPT !.state.selected_file = ""]
         [] OTHER -> NavigateToFile(reset, espanso_loc)

\* ModalOkPressed with the file list read before the file is removed.
ModalOkPressedListsFirst(w) ==
    LET hidden == [w EXCEPT !.state.show_modal = FALSE]
    IN IF w.state.nav_queue = "eg-Delete"
       THEN NavigateTo([hidden EXCEPT
                !.files = RemoveFile(w.files, w.state.selected_file),
                !.state.match_files =
                    GetAllMatchFileStems(w.files, PathJoin(w.state.espanso_loc, "match")),
                !.state.nav_queue = "",
                !.state.modal_ok_text = "OK"], "eg-Settings")
       ELSE IF ~IsEmpty(w.state.nav_queue)
       THEN NavigateTo([hidden EXCEPT !.state.nav_queue = ""], w.state.nav_queue)
       ELSE hidden

\* Message::ModalOkPressed
ModalOkPressed(w) ==
    LET hidden == [w EXCEPT !.state.show_modal = FALSE]
    IN IF w.state.nav_queue = "eg-Delete"
       THEN LET fs == IF IsFile(w.files, w.state.selected_file)
                      THEN RemoveFile(w.files, w.state.selected_file)
                      ELSE w.files
                listed == [hidden EXCEPT
                    !.files = fs,
                    !.state.match_files =
                        GetAllMatchFileStems(fs, PathJoin(w.state.espanso_loc, "match")),
                    !.state.nav_queue = "",
                    !.state.modal_ok_text = "OK"]
            IN NavigateTo(listed, "eg-Settings")
       ELSE IF ~IsEmpty(w.state.nav_queue)
       THEN NavigateTo([hidden EXCEPT !.state.nav_queue = ""], w.state.nav_queue)
       ELSE hidden

\* Message::CloseModal
CloseModal(w) == [w EXCEPT !.state.show_modal = FALSE]

\* Message::ModalCancelPressed
ModalCancelPressed(w) ==
    [w EXCEPT !.state.show_modal = FALSE,
              !.state.modal_ok_text = "OK",
              !.state.nav_queue = ""]

\* AddPairPressed putting the new row first.
AddPairPressedInFront(w) ==
    [w EXCEPT !.state.edited_file.matches = <<YamlPairsDefault>> \o @]

\* Message::AddPairPressed
AddPairPressed(w) ==
    [w EXCEPT !.state.edited_file.matches = Append(@, YamlPairsDefault)]

\* Message::EspansoDirInputChanged(value)
EspansoDirInputChanged(w, value) == [w EXCEPT !.state.espanso_loc = value]

\* YamlInputChanged with the third argument ignored: the text always lands
\* in the trigger.
YamlInputChangedIntoTrigger(w, new_str, i, trig_repl) ==
    IF i + 1 > Len(w.state.edited_file.matches)
    THEN Panic(w)
    ELSE [w EXCEPT !.state.edited_file.matches[i + 1].trigger = new_str]

\* Message::YamlInputChanged(new_str, i, trig_repl); i counts from 0.
YamlInputChanged(w, new_str, i, trig_repl) ==
    IF i + 1 > Len(w.state.edited_file.matches)
    THEN Panic(w)
    ELSE IF trig_repl = "trigger"
    THEN [w EXCEPT !.state.edited_file.matches[i + 1].trigger = new_str]
    ELSE [w EXCEPT !.state.edited_file.matches[i + 1].replace = new_str]

\* Message::BrowsePressed; selected_folder is what the folder dialog returned.
BrowsePressed(w, selected_folder) ==
    IF IsSome(selected_folder)
    THEN IF ValidEspansoDir(w.files, selected_folder[1])
         THEN [w EXCEPT !.state.directory_invalid = FALSE,
                        !.state.espanso_loc = selected_folder[1]]
         ELSE [w EXCEPT !.state.directory_invalid = TRUE]
    ELSE w

\* SettingsSavePressed with the preferences written before the directory is
\* looked at.
SettingsSavePressedWritesFirst(w) ==
    LET espanso_loc == TrimEndMatches(w.state.espanso_loc, "/")
        valid == ValidEspansoDir(w.files, espanso_loc)
    IN [w EXCEPT
          !.state.espanso_loc = espanso_loc,
          !.egui_data = Some(espanso_loc),
          !.state.directory_invalid = ~valid,
          !.state.match_files =
              IF valid
              THEN GetAllMatchFileStems(w.files, PathJoin(espanso_loc, "match"))
              ELSE @]

\* Message::SettingsSavePressed
SettingsSavePressed(w) ==
    LET espanso_loc == IF EndsWith(w.state.espanso_loc, "/")
                       THEN TrimEndMatches(w.state.espanso_loc, "/")
                       ELSE w.state.espanso_loc
        trimmed == [w EXCEPT !.state.espanso_loc = espanso_loc]
    IN IF ValidEspansoDir(w.files, espanso_loc)
       THEN [trimmed EXCEPT
               !.state.directory_invalid = FALSE,
               !.egui_data = Some(espanso_loc),
               !.state.match_files =
                   GetAllMatchFileStems(w.files, PathJoin(espanso_loc, "match"))]
       ELSE [trimmed EXCEPT !.state.directory_invalid = TRUE]

\* ResetPressed with the assignment turned around.
ResetPressedIntoOriginal(w) == [w EXCEPT !.state.original_file = w.state.edited_file]

\* Message::ResetPressed
ResetPressed(w) == [w EXCEPT !.state.edited_file = w.state.original_file]

\* The check for empty text boxes without the trim.
EmptyLinesAsTyped(matches) ==
    \E k \in 1..Len(matches) :
        \/ IsEmpty(matches[k].trigger)
        \/ IsEmpty(matches[k].replace)

\* Message::SaveFilePressed: the check for empty text boxes
EmptyLines(matches) ==
    \E k \in 1..Len(matches) :
        \/ IsEmpty(Trim(matches[k].trigger))
        \/ IsEmpty(Trim(matches[k].replace))

\* SaveFilePressed that writes the file and leaves original_file as it was.
SaveFilePressedKeepsOriginal(w) ==
    IF EmptyLines(w.state.edited_file.matches)
    THEN [w EXCEPT !.state.modal_title = "Empty Lines",
                   !.state.modal_description = "No text boxes can be empty.",
                   !.state.nav_queue = "",
                   !.state.show_modal = TRUE]
    ELSE IF WriteFromTriggersPanics(w.files, w.state.selected_file)
    THEN Panic(w)
    ELSE [w EXCEPT
            !.files = WriteFromTriggers(w.files, w.state.selected_file,
                                        w.state.edited_file)]

\* Message::SaveFilePressed
SaveFilePressed(w) ==
    IF EmptyLines(w.state.edited_file.matches)
    THEN [w EXCEPT !.state.modal_title = "Empty Lines",
                   !.state.modal_description = "No text boxes can be empty.",
                   !.state.nav_queue = "",
                   !.state.show_modal = TRUE]
    ELSE IF WriteFromTriggersPanics(w.files, w.state.selected_file)
    THEN Panic(w)
    ELSE [w EXCEPT
            !.files = WriteFromTriggers(w.files, w.state.selected_file,
                                        w.state.edited_file),
            !.state.original_file = w.state.edited_file]

\* Message::AddFilePressed
AddFilePressed(w) ==
    IF w.state.show_new_file_input
    THEN [w EXCEPT !.state.show_new_file_input = FALSE,
                   !.state.new_file_name = ""]
    ELSE [w EXCEPT !.state.show_new_file_input = TRUE]

\* Message::NewFileInputChanged(value)
NewFileInputChanged(w, value) == [w EXCEPT !.state.new_file_name = value]

\* Message::SubmitNewFileName
SubmitNewFileName(w) ==
    LET closed == [w EXCEPT !.state.show_new_file_input = FALSE]
        name == IF EndsWith(w.state.new_file_name, ".yml")
                THEN TrimEndMatches(w.state.new_file_name, ".yml")
                ELSE w.state.new_file_name
        path == w.state.espanso_loc \o "/match/" \o name \o ".yml"
    IN IF ~IsEmpty(Trim(w.state.new_file_name))
       THEN IF CreateNewYmlFilePanics(w.files, path)
            THEN Panic([closed EXCEPT !.state.new_file_name = name])
            ELSE LET fs == CreateNewYmlFile(w.files, path)
                 IN [closed EXCEPT
                       !.files = fs,
                       !.state.match_files =
                           GetAllMatchFileStems(fs, PathJoin(w.state.espanso_loc, "match")),
                       !.state.new_file_name = ""]
       ELSE closed

\* Message::FileNameChangeInputChanged(value)
FileNameChangeInputChanged(w, value) ==
    IF IsValidFileName(value) THEN [w EXCEPT !.state.file_name_change = value] ELSE w

\* std::fs::rename: Err when the source is missing or the target's directory
\* is; an existing target is replaced.
RenameOk(fs, from, to) ==
    /\ IsFile(fs, from)
    /\ CanOpenForWrite(fs, to)

RenameFile(fs, from, to) ==
    IF CanonPath(from) = CanonPath(to) THEN fs
    ELSE WriteFile(RemoveFile(fs, from), to, ReadFile(fs, from))

\* FileNameChangeSubmit with the file list read before the rename.
FileNameChangeSubmitListsFirst(w) ==
    IF /\ w.state.file_name_change /= w.state.selected_nav
       /\ IsValidFileName(w.state.file_name_change)
    THEN LET match_path == PathJoin(w.state.espanso_loc, "match")
             from_path == PathJoin(match_path, w.state.selected_nav \o ".yml")
             to_path == PathJoin(match_path, w.state.file_name_change \o ".yml")
         IN [w EXCEPT !.files = IF RenameOk(w.files, from_path, to_path)
                                THEN RenameFile(w.files, from_path, to_path)
                                ELSE w.files,
                      !.state.match_files = GetAllMatchFileStems(w.files, match_path),
                      !.state.selected_nav = w.state.file_name_change,
                      !.state.selected_file = to_path]
    ELSE w

\* FileNameChangeSubmit that leaves selected_file at the old path.
FileNameChangeSubmitKeepsSelectedFile(w) ==
    IF /\ w.state.file_name_change /= w.state.selected_nav
       /\ IsValidFileName(w.state.file_name_change)
    THEN LET match_path == PathJoin(w.state.espanso_loc, "match")
             from_path == PathJoin(match_path, w.state.selected_nav \o ".yml")
             to_path == PathJoin(match_path, w.state.file_name_change \o ".yml")
             fs == IF RenameOk(w.files, from_path, to_path)
                   THEN RenameFile(w.files, from_path, to_path)
                   ELSE w.files
         IN [w EXCEPT !.files = fs,
                      !.state.match_files = GetAllMatchFileStems(fs, match_path),
                      !.state.selected_nav = w.state.file_name_change]
    ELSE w

\* Message::FileNameChangeSubmit
FileNameChangeSubmit(w) ==
    IF /\ w.state.file_name_change /= w.state.selected_nav
       /\ IsValidFileName(w.state.file_name_change)
    THEN LET match_path == PathJoin(w.state.espanso_loc, "match")
             from_path == PathJoin(match_path, w.state.selected_nav \o ".yml")
             to_path == PathJoin(match_path, w.state.file_name_change \o ".yml")
             fs == IF RenameOk(w.files, from_path, to_path)
                   THEN RenameFile(w.files, from_path, to_path)
                   ELSE w.files
         IN [w EXCEPT !.files = fs,
                      !.state.match_files = GetAllMatchFileStems(fs, match_path),
                      !.state.selected_nav = w.state.file_name_change,
                      !.state.selected_file = to_path]
    ELSE w

\* Message::DeleteFilePressed
DeleteFilePressed(w) ==
    [w EXCEPT !.state.modal_title = "Delete file?",
              !.state.modal_description =
                  "Are you sure you want to delete the file? This cannot be undone.",
              !.state.modal_ok_text = "Delete",
              !.state.nav_queue = "eg-Delete",
              !.state.show_modal = TRUE]

\* SetField writing into both copies.
SetFieldInBothCopies(w, field, value) ==
    [w EXCEPT !.state.edited_config[field] = Some(value),
              !.state.original_config[field] = Some(value)]

\* The messages that set one option of the edited configuration:
\* Message::BackendPicked, EnableToggled, ToggleKeyPicked, KeyDelayInput.
SetField(w, field, value) == [w EXCEPT !.state.edited_config[field] = Some(value)]

BackendPicked(w, value) == SetField(w, "backend", value)

EnableToggled(w, value) == SetField(w, "enable", value)

ToggleKeyPicked(w, value) == SetField(w, "toggle_key", value)

KeyDelayInput(w, value) == SetField(w, "key_delay", value)

\* Message::SaveConfigPressed
SaveConfigPressed(w) ==
    IF OverwriteConfigPanics(w.files, w.state.selected_file)
    THEN Panic(w)
    ELSE [w EXCEPT
            !.files = OverwriteConfig(w.files, w.state.selected_file,
                                      w.state.edited_config),
            !.state.original_config = w.state.edited_config]

\* serde_json's reading of a text, as far as a list or a map of strings needs
\* it: white space between the tokens, the six punctuation marks, and
\* strings in double quotes with backslash escapes.  mode is "out" between
\* tokens, "str" inside a string, "esc" after a backslash.  The result has
\* ok = FALSE when a string is not closed, an escape is unknown, or a
\* character that starts no string stands between the tokens (a number, a
\* literal: a value that is not a string).  The escapes \b, \f and \uXXXX
\* are in none of the inputs of the model.
JsonEscapes ==
    [c \in {"\"", "\\", "/", "n", "t", "r"} |->
        CASE c = "n" -> "\n" [] c = "t" -> "\t" [] c = "r" -> "\r" [] OTHER -> c]

JsonPunctuation == {"[", "]", "{", "}", ",", ":"}

RECURSIVE JsonTokens(_, _, _, _, _)
JsonTokens(s, i, mode, cur, acc) ==
    IF i > Len(s)
    THEN [ok |-> mode = "out", tokens |-> acc]
    ELSE LET c == Char(s, i)
             failed == [ok |-> FALSE, tokens |-> <<>>]
         IN IF mode = "out"
            THEN IF c \in {" ", "\n", "\t", "\r"}
                 THEN JsonTokens(s, i + 1, "out", cur, acc)
                 ELSE IF c \in JsonPunctuation
                 THEN JsonTokens(s, i + 1, "out", cur,
                                 Append(acc, [string |-> FALSE, text |-> c]))
                 ELSE IF c = "\""
                 THEN JsonTokens(s, i + 1, "str", "", acc)
                 ELSE failed
            ELSE IF mode = "str"
            THEN IF c = "\""
                 THEN JsonTokens(s, i + 1, "out", "",
                                 Append(acc, [string |-> TRUE, text |-> cur]))
                 ELSE IF c = "\\"
                 THEN JsonTokens(s, i + 1, "esc", cur, acc)
                 ELSE IF c \in {"\n", "\t", "\r"}
                 THEN failed
                 ELSE JsonTokens(s, i + 1, "str", cur \o c, acc)
            ELSE IF c \in DOMAIN JsonEscapes
                 THEN JsonTokens(s, i + 1, "str", cur \o JsonEscapes[c], acc)
                 ELSE failed

IsPunctuation(token, c) == ~token.string /\ token.text = c

\* serde_json::from_str::<Vec<String>>: Ok for "[" string, .. "]" only.
JsonStringListParses(text) ==
    LET r == JsonTokens(text, 1, "out", "", <<>>)
        n == Len(r.tokens)
    IN /\ r.ok
       /\ n >= 2
       /\ IsPunctuation(r.tokens[1], "[")
       /\ IsPunctuation(r.tokens[n], "]")
       /\ n = 2 \/ n % 2 = 1
       /\ \A k \in 2..(n - 1) :
              IF k % 2 = 0 THEN r.tokens[k].string
                           ELSE IsPunctuation(r.tokens[k], ",")

JsonStringList(text) ==
    LET r == JsonTokens(text, 1, "out", "", <<>>)
    IN [k \in 1..((Len(r.tokens) - 1) \div 2) |-> r.tokens[2 * k].text]

\* serde_json::from_str::<BTreeMap<String, String>>: Ok for
\* "{" string ":" string, .. "}" only; of two entries with one key the
\* later one stays.
JsonStringMapParses(text) ==
    LET r == JsonTokens(text, 1, "out", "", <<>>)
        n == Len(r.tokens)
    IN /\ r.ok
       /\ n >= 2
       /\ IsPunctuation(r.tokens[1], "{")
       /\ IsPunctuation(r.tokens[n], "}")
       /\ n = 2 \/ n % 4 = 1
       /\ \A k \in 2..(n - 1) :
              CASE k % 4 = 3 -> IsPunctuation(r.tokens[k], ":")
                [] k % 4 = 1 -> IsPunctuation(r.tokens[k], ",")
                [] OTHER -> r.tokens[k].string

JsonStringMap(text) ==
    LET r == JsonTokens(text, 1, "out", "", <<>>)
        entries == 1..((Len(r.tokens) - 1) \div 4)
        KeyOf(e) == r.tokens[4 * e - 2].text
        latest(key) == CHOOSE e \in entries :
                           /\ KeyOf(e) = key
                           /\ \A d \in entries : KeyOf(d) = key => d <= e
    IN [key \in {KeyOf(e) : e \in entries} |-> r.tokens[4 * latest(key)].text]

\* Message::WordSeparatorsInput(value): from_str(&value).unwrap()
WordSeparatorsInput(w, value) ==
    IF JsonStringListParses(value)
    THEN SetField(w, "word_separators", JsonStringList(value))
    ELSE Panic(w)

\* Message::KeyboardLayoutInput(value): the value is put between the quotes
\* of { "layout": ".." } as it is, and the text is parsed.
KeyboardLayoutInput(w, value) ==
    LET json_string == "{ \"layout\": \"" \o value \o "\" }"
    IN IF JsonStringMapParses(json_string)
       THEN SetField(w, "keyboard_layout", JsonStringMap(json_string))
       ELSE Panic(w)

\* ResetConfigPressed that resets the two pickers only.
ResetConfigPressedPickersOnly(w) ==
    [w EXCEPT !.state.edited_config.backend = Some("Auto"),
              !.state.edited_config.toggle_key = Some("OFF")]

\* Message::ResetConfigPressed
ResetConfigPressed(w) ==
    [w EXCEPT !.state.edited_config =
        [ParsedConfigDefault EXCEPT !.backend = Some("Auto"),
                                    !.toggle_key = Some("OFF")]]

\* Message::UndoConfigPressed
UndoConfigPressed(w) == [w EXCEPT !.state.edited_config = w.state.original_config]

\* Message::LaunchURL(value): opens the browser, the State is not touched.
LaunchURL(w) == w

\* Message::DeleteRowPressed(index); index counts from 0.
DeleteRowPressed(w, index) ==
    IF index + 1 > Len(w.state.edited_file.matches)
    THEN Panic(w)
    ELSE [w EXCEPT !.state.edited_file.matches =
             SubSeq(@, 1, index) \o SubSeq(@, index + 2, Len(@))]

\* Message::FontLoaded and Message::Loaded fall to the arm `_ => {}`.
Ignored(w) == w

(***************************************************************************)
(* The disks the application may find when it starts.                      *)
(***************************************************************************)
MatchDoc(pairs) == SerializeEspansoYaml([matches |-> pairs])

\* A hand-written match file: keys in another order, a key the editor does
\* not know, an entry with an empty trigger, one with a blank replace.
HandWrittenDoc ==
    Doc("matches" :>
        << << <<"replace", "b">>, <<"trigger", "a">>, <<"label", "x">> >>,
           << <<"trigger", "">>, <<"replace", "a">> >>,
           << <<"trigger", "b">>, <<"replace", " ">> >> >>)

InitialDisks ==
    { ("/e/config/default.yml" :> Doc("enable" :> TRUE)) @@
      ("/e/match/f1.yml" :> MatchDoc(<<YamlPairs("a", "b")>>)) @@
      ("/e/match/f2.yml" :> MatchDoc(<<YamlPairs("a", "a"), YamlPairs("a", "a")>>)),
      ("/e/config/default.yml" :> Doc("backspace_delay" :> 50 @@ "backend" :> "Clipboard")) @@
      ("/e/match/f1.yml" :> HandWrittenDoc) @@
      ("/e/match/f2.yml" :> Garbage) }

\* The preferences file: missing, or naming a directory.
InitialEguiData == {None, Some("/x")}

(***************************************************************************)
(* What the user can type, pick and press.                                 *)
(***************************************************************************)
DirInputs == {"/e/", "/x"}

BrowseResults == {None, Some("/e"), Some("/x")}

NewFileInputs == {"new", "f1.yml", " ", "a+b", "a/b"}

FileNameChangeInputs == {"new", "f2", "a/b", "My Snippets-1"}

BackendChoices == {"Auto", "Clipboard"}

ToggleKeyChoices == {"OFF", "ALT"}

DelayInputs == {0, 50}

(***************************************************************************)
(* EGUI::view: which messages the widgets on screen can emit.              *)
(***************************************************************************)
Loaded == egui = "Loaded"

ModalShown == Loaded /\ state.show_modal

\* The underlay is live when no modal covers it.
Underlay == Loaded /\ ~state.show_modal

OnSettings == Underlay /\ state.selected_nav = "eg-Settings"

OnConfig == Underlay /\ state.selected_nav = "eg-Config"

OnAbout == Underlay /\ state.selected_nav = "eg-About"

\* The rows of the open file are built, and shown, for any other selection.
OnFile == Underlay /\ state.selected_nav \notin {"", "eg-Settings", "eg-Config", "eg-About"}

\* unsaved_changes taken as true whatever the two copies hold.
UnsavedChangesAlways == TRUE

unsaved_changes == state.edited_file.matches /= state.original_file.matches

\* The destinations of the nav buttons that pass unsaved_changes on.
GuardedDestinations ==
    {state.match_files[i] : i \in 1..Len(state.match_files)} \cup {"eg-Config", "eg-Settings"}

(***************************************************************************)
(* EGUI::update: one action per message the view can emit.                 *)
(***************************************************************************)
Here == World(state, files, egui_data, FALSE)

\* The handler ran on message msg and left w behind.
Step(msg, w) ==
    /\ Loaded
    /\ steps < MaxSteps
    /\ egui' = IF w.panicked THEN "Panicked" ELSE "Loaded"
    /\ state' = IF w.panicked THEN state ELSE w.state
    /\ files' = w.files
    /\ egui_data' = w.egui_data
    /\ last' = msg
    /\ steps' = steps + 1

\* EGUI::update in the Loading state, on Message::Loaded
UpdateLoaded ==
    /\ egui = "Loading"
    /\ LET w == StateNew(files, egui_data)
       IN /\ egui' = "Loaded"
          /\ state' = w.state
          /\ files' = w.files
          /\ egui_data' = w.egui_data
    /\ last' = Msg("Loaded", "", 0, None)
    /\ UNCHANGED steps

\* Message::FontLoaded, the result of the command EGUI::new starts: it comes
\* in once, while loading or right after, and is ignored in both states.
UpdateFontLoaded ==
    /\ egui \in {"Loading", "Loaded"}
    /\ steps = 0
    /\ last.type \in {"", "Loaded"}
    /\ last' = Msg("FontLoaded", last.type, 0, None)
    /\ UNCHANGED <<egui, state, files, egui_data, steps>>

UpdateShowModal(destination) ==
    /\ Underlay
    /\ unsaved_changes
    /\ destination \in GuardedDestinations
    /\ Step(Msg("ShowModal", destination, 0, None),
            ShowModal(Here, "Unsaved Changes",
                      "Leaving this file with erase any unsaved changes.", destination))

UpdateNavigateTo(value) ==
    /\ Underlay
    /\ \/ value = "eg-About"
       \/ ~unsaved_changes /\ value \in GuardedDestinations
    /\ Step(Msg("NavigateTo", value, 0, None), NavigateTo(Here, value))

UpdateModalOkPressed ==
    /\ ModalShown
    /\ Step(Msg("ModalOkPressed", "", 0, None), ModalOkPressed(Here))

UpdateCloseModal ==
    /\ ModalShown
    /\ Step(Msg("CloseModal", "", 0, None), CloseModal(Here))

UpdateModalCancelPressed ==
    /\ ModalShown
    /\ Step(Msg("ModalCancelPressed", "", 0, None), ModalCancelPressed(Here))

UpdateAddPairPressed ==
    /\ OnFile
    /\ Len(state.edited_file.matches) < MaxPairs
    /\ Step(Msg("AddPairPressed", "", 0, None), AddPairPressed(Here))

UpdateEspansoDirInputChanged(value) ==
    /\ OnSettings
    /\ Step(Msg("EspansoDirInputChanged", value, 0, None),
            EspansoDirInputChanged(Here, value))

UpdateYamlInputChanged(new_str, i, trig_repl) ==
    /\ OnFile
    /\ i < Len(state.edited_file.matches)
    /\ Step(Msg("YamlInputChanged", new_str, i, Some(trig_repl)),
            YamlInputChanged(Here, new_str, i, trig_repl))

UpdateBrowsePressed(selected_folder) ==
    /\ OnSettings
    /\ Step(Msg("BrowsePressed", "", 0, selected_folder),
            BrowsePressed(Here, selected_folder))

UpdateSettingsSavePressed ==
    /\ OnSettings
    /\ Step(Msg("SettingsSavePressed", "", 0, None), SettingsSavePressed(Here))

UpdateResetPressed ==
    /\ OnFile
    /\ unsaved_changes
    /\ Step(Msg("ResetPressed", "", 0, None), ResetPressed(Here))

UpdateSaveFilePressed ==
    /\ OnFile
    /\ unsaved_changes
    /\ Step(Msg("SaveFilePressed", "", 0, None), SaveFilePressed(Here))

UpdateAddFilePressed ==
    /\ Underlay
    /\ Step(Msg("AddFilePressed", "", 0, None), AddFilePressed(Here))

UpdateNewFileInputChanged(value) ==
    /\ Underlay
    /\ state.show_new_file_input
    /\ Step(Msg("NewFileInputChanged", value, 0, None), NewFileInputChanged(Here, value))

UpdateSubmitNewFileName ==
    /\ Underlay
    /\ state.show_new_file_input
    /\ Step(Msg("SubmitNewFileName", "", 0, None), SubmitNewFileName(Here))

UpdateFileNameChangeInputChanged(value) ==
    /\ OnFile
    /\ Step(Msg("FileNameChangeInputChanged", value, 0, None),
            FileNameChangeInputChanged(Here, value))

UpdateFileNameChangeSubmit ==
    /\ OnFile
    /\ Step(Msg("FileNameChangeSubmit", "", 0, None), FileNameChangeSubmit(Here))

UpdateDeleteFilePressed ==
    /\ OnFile
    /\ Step(Msg("DeleteFilePressed", "", 0, None), DeleteFilePressed(Here))

UpdateBackendPicked(value) ==
    /\ OnConfig
    /\ Step(Msg("BackendPicked", "backend", 0, Some(value)), BackendPicked(Here, value))

UpdateEnableToggled(value) ==
    /\ OnConfig
    /\ Step(Msg("EnableToggled", "enable", 0, Some(value)), EnableToggled(Here, value))

UpdateToggleKeyPicked(value) ==
    /\ OnConfig
    /\ Step(Msg("ToggleKeyPicked", "toggle_key", 0, Some(value)),
            ToggleKeyPicked(Here, value))

UpdateKeyDelayInput(value) ==
    /\ OnConfig
    /\ Step(Msg("KeyDelayInput", "key_delay", 0, Some(value)), KeyDelayInput(Here, value))

UpdateWordSeparatorsInput(value) ==
    /\ OnConfig
    /\ Step(Msg("WordSeparatorsInput", value, 0, None), WordSeparatorsInput(Here, value))

UpdateKeyboardLayoutInput(value) ==
    /\ OnConfig
    /\ Step(Msg("KeyboardLayoutInput", value, 0, None), KeyboardLayoutInput(Here, value))

UpdateSaveConfigPressed ==
    /\ OnConfig
    /\ state.original_config /= state.edited_config
    /\ Step(Msg("SaveConfigPressed", "", 0, None), SaveConfigPressed(Here))

UpdateResetConfigPressed ==
    /\ OnConfig
    /\ Step(Msg("ResetConfigPressed", "", 0, None), ResetConfigPressed(Here))

UpdateUndoConfigPressed ==
    /\ OnConfig
    /\ state.original_config /= state.edited_config
    /\ Step(Msg("UndoConfigPressed", "", 0, None), UndoConfigPressed(Here))

UpdateLaunchURL ==
    /\ OnAbout \/ OnConfig
    /\ Step(Msg("LaunchURL", "", 0, None), LaunchURL(Here))

UpdateDeleteRowPressed(index) ==
    /\ OnFile
    /\ index < Len(state.edited_file.matches)
    /\ Step(Msg("DeleteRowPressed", "", index, None), DeleteRowPressed(Here, index))

Init ==
    /\ egui = "Loading"
    /\ state = StateDefault
    /\ files \in InitialDisks
    /\ egui_data \in InitialEguiData
    /\ last = NoMsg
    /\ steps = 0

Next ==
    \/ UpdateLoaded
    \/ UpdateFontLoaded
    \/ \E destination \in GuardedDestinations : UpdateShowModal(destination)
    \/ \E value \in GuardedDestinations \cup {"eg-About"} : UpdateNavigateTo(value)
    \/ UpdateModalOkPressed
    \/ UpdateCloseModal
    \/ UpdateModalCancelPressed
    \/ UpdateAddPairPressed
    \/ \E value \in DirInputs : UpdateEspansoDirInputChanged(value)
    \/ \E new_str \in Str, i \in 0..(MaxPairs + MaxDocLen), trig_repl \in {"trigger", "replace"} :
           UpdateYamlInputChanged(new_str, i, trig_repl)
    \/ \E selected_folder \in BrowseResults : UpdateBrowsePressed(selected_folder)
    \/ UpdateSettingsSavePressed
    \/ UpdateResetPressed
    \/ UpdateSaveFilePressed
    \/ UpdateAddFilePressed
    \/ \E value \in NewFileInputs : UpdateNewFileInputChanged(value)
    \/ UpdateSubmitNewFileName
    \/ \E value \in FileNameChangeInputs : UpdateFileNameChangeInputChanged(value)
    \/ UpdateFileNameChangeSubmit
    \/ UpdateDeleteFilePressed
    \/ \E value \in BackendChoices : UpdateBackendPicked(value)
    \/ \E value \in BOOLEAN : UpdateEnableToggled(value)
    \/ \E value \in ToggleKeyChoices : UpdateToggleKeyPicked(value)
    \/ \E value \in DelayInputs : UpdateKeyDelayInput(value)
    \/ UpdateSaveConfigPressed
    \/ UpdateResetConfigPressed
    \/ UpdateUndoConfigPressed
    \/ UpdateLaunchURL
    \/ \E index \in 0..(MaxPairs + MaxDocLen) : UpdateDeleteRowPressed(index)

Spec == Init /\ [][Next]_vars

(***************************************************************************)
(* The configuration screen on its own: the application starts on any      *)
(* configuration file the model can write down, and the user stays on the  *)
(* Config and Settings screens.                                            *)
(***************************************************************************)
\* The value a configuration file gives an option it sets.
ConfigValueOnDisk ==
    [backend |-> "Clipboard", toggle_key |-> "ALT", enable |-> TRUE,
     key_delay |-> 0, backspace_delay |-> 50]

ConfigDocs ==
    {Doc([f \in D |-> ConfigValueOnDisk[f]]) : D \in SUBSET DOMAIN ConfigValueOnDisk}
        \cup {EmptyText, Garbage}

ConfigDisks ==
    { ("/e/config/default.yml" :> d) @@ ("/e/match/f1.yml" :> MatchDoc(<<>>)) :
        d \in ConfigDocs }

InitConfig ==
    /\ egui = "Loading"
    /\ state = StateDefault
    /\ files \in ConfigDisks
    /\ egui_data = None
    /\ last = NoMsg
    /\ steps = 0

NextConfig ==
    \/ UpdateLoaded
    \/ \E value \in {"eg-Config", "eg-Settings"} : UpdateNavigateTo(value)
    \/ \E value \in BackendChoices : UpdateBackendPicked(value)
    \/ \E value \in BOOLEAN : UpdateEnableToggled(value)
    \/ \E value \in ToggleKeyChoices : UpdateToggleKeyPicked(value)
    \/ \E value \in DelayInputs : UpdateKeyDelayInput(value)
    \/ UpdateSaveConfigPressed
    \/ UpdateResetConfigPressed
    \/ UpdateUndoConfigPressed

SpecConfig == InitConfig /\ [][NextConfig]_vars

(***************************************************************************)
(* The two text fields of the Config screen whose text is parsed, on the   *)
(* configuration files of SpecConfig.  A text_input emits its message on   *)
(* every keystroke with the whole text of the field, so the texts a user   *)
(* passes through while typing a list are inputs as well as the finished   *)
(* list.                                                                   *)
(***************************************************************************)
WordSeparatorsInputs == {"[\".\"]", "[\".\", \"\\n\"]", "[\".\"", "[\".\", 22]", ""}

KeyboardLayoutInputs == {"us", "de", "u\"", "u\\", "us\", \"variant\": \"intl"}

NextText ==
    \/ UpdateLoaded
    \/ \E value \in {"eg-Config", "eg-Settings"} : UpdateNavigateTo(value)
    \/ \E value \in WordSeparatorsInputs : UpdateWordSeparatorsInput(value)
    \/ \E value \in KeyboardLayoutInputs : UpdateKeyboardLayoutInput(value)
    \/ UpdateSaveConfigPressed
    \/ UpdateUndoConfigPressed

SpecText == InitConfig /\ [][NextText]_vars

(***************************************************************************)
(* Match files in a subfolder of match/: the walk of                       *)
(* get_all_match_file_stems goes into sub/, where f3.yml lies and, on some *)
(* disks, a second f1.yml.                                                 *)
(***************************************************************************)
NestedDisks ==
    { ("/e/config/default.yml" :> Doc("enable" :> TRUE))
        @@ ("/e/match/f1.yml" :> MatchDoc(<< YamlPairs("a", "b") >>))
        @@ ("/e/match/sub/f3.yml" :> MatchDoc(<< YamlPairs("b", "a") >>))
        @@ [p \in D |-> MatchDoc(<< YamlPairs("b", "b") >>)] :
        D \in SUBSET {"/e/match/sub/f1.yml"} }

InitNested ==
    /\ egui = "Loading"
    /\ state = StateDefault
    /\ files \in NestedDisks
    /\ egui_data = None
    /\ last = NoMsg
    /\ steps = 0

NextNested ==
    \/ UpdateLoaded
    \/ \E value \in {"f1", "f3", "eg-Settings"} : UpdateNavigateTo(value)
    \/ UpdateAddPairPressed
    \/ \E new_str \in {"a", "b"}, i \in 0..MaxPairs, trig_repl \in {"trigger", "replace"} :
           UpdateYamlInputChanged(new_str, i, trig_repl)
    \/ UpdateSaveFilePressed
    \/ UpdateResetPressed

SpecNested == InitNested /\ [][NextNested]_vars

(***************************************************************************)
(* The start of the application.  The runtime delivers Loaded once; the    *)
(* action UpdateLoadedAgain is the arm of update that a Loaded message     *)
(* delivered in the Loaded state would take.                               *)
(***************************************************************************)
\* EGUI::update in the Loaded state, on Message::Loaded: the arm _ => {}
UpdateLoadedAgain ==
    /\ Loaded
    /\ Step(Msg("Loaded", "", 0, None), Here)

NextStartup ==
    \/ UpdateLoaded
    \/ UpdateFontLoaded
    \/ UpdateLoadedAgain
    \/ \E value \in GuardedDestinations \cup {"eg-About"} : UpdateNavigateTo(value)
    \/ UpdateAddPairPressed
    \/ \E new_str \in {"a", ""}, i \in 0..MaxPairs, trig_repl \in {"trigger", "replace"} :
           UpdateYamlInputChanged(new_str, i, trig_repl)
    \/ \E destination \in GuardedDestinations : UpdateShowModal(destination)
    \/ UpdateCloseModal

SpecStartup == Init /\ [][NextStartup]_vars

(***************************************************************************)
(* The match-file store on its own: read_to_triggers and                   *)
(* write_from_triggers applied to every sequence of entries and to every   *)
(* file up to MaxDocLen entries, through the handlers that call them.      *)
(***************************************************************************)
SeqsUpTo(S, n) == UNION {[1..k -> S] : k \in 0..n}

StorePairs == {YamlPairs(t, r) : t \in Str, r \in Str}

\* What an entry of a match file on disk may look like: what the editor
\* writes, and what a hand may have written (keys in another order with a
\* key the editor does not know, a missing key, a key given twice).
RawEntries ==
    {SerializePair(p) : p \in StorePairs} \cup
    { << <<"replace", "b">>, <<"label", "x">>, <<"trigger", "a">> >>,
      << <<"trigger", "a">> >>,
      << <<"trigger", "a">>, <<"trigger", "b">>, <<"replace", "a">> >> }

StoreDocs ==
    {Doc("matches" :> es) : es \in SeqsUpTo(RawEntries, MaxDocLen)}
        \cup {Garbage, EmptyText, Doc("enable" :> TRUE)}

StoreBase == "/e/config/default.yml" :> Doc("enable" :> TRUE)

StorePath == "/e/match/f1.yml"

\* The State with f1 selected, before anything is read.
StoreState ==
    [StateNew(StoreBase, None).state EXCEPT !.selected_nav = "f1",
                                            !.selected_file = StorePath,
                                            !.file_name_change = "f1"]

InitStore ==
    /\ egui = "Loaded"
    /\ \/ /\ files = StoreBase
          /\ \E es \in SeqsUpTo(StorePairs, MaxDocLen) :
                 state = [StoreState EXCEPT !.edited_file = [matches |-> es]]
       \/ /\ \E d \in StoreDocs : files = StoreBase @@ (StorePath :> d)
          /\ state = StoreState
    /\ egui_data = Some(DefaultEspansoDir)
    /\ last = NoMsg
    /\ steps = 0

\* write_from_triggers(selected_file, edited_file)
StoreWrite ==
    /\ Loaded
    /\ ~WriteFromTriggersPanics(files, state.selected_file)
    /\ Step(Msg("write_from_triggers", "", 0, Some(last.type)),
            [Here EXCEPT !.files =
                WriteFromTriggers(files, state.selected_file, state.edited_file)])

\* NavigateTo("f1"): read_to_triggers(selected_file) into both copies
StoreNavigateTo ==
    /\ Loaded
    /\ Step(Msg("NavigateTo", "f1", 0, Some(last.type)), NavigateTo(Here, "f1"))

\* SaveFilePressed: the check for empty text boxes, then write_from_triggers
StoreSaveFilePressed ==
    /\ Loaded
    /\ ~state.show_modal
    /\ Step(Msg("SaveFilePressed", "", 0, Some(last.type)), SaveFilePressed(Here))

NextStore == StoreWrite \/ StoreNavigateTo \/ StoreSaveFilePressed

SpecStore == InitStore /\ [][NextStore]_vars

(***************************************************************************)
(* The Settings screen on its own: the directory is typed or picked and    *)
(* saved, on disks that have or lack each of the things valid_espanso_dir  *)
(* looks for.                                                              *)
(***************************************************************************)
\* The files a disk of this specification may hold.
DirFiles ==
    ("/e/config/default.yml" :> Doc("enable" :> TRUE)) @@
    ("/z/config/default.yml" :> Doc("enable" :> TRUE)) @@
    ("/y/config/default.yml" :> Doc("enable" :> TRUE)) @@
    ("/f/config" :> Garbage) @@
    ("/e/notes.txt" :> Garbage) @@
    ("/e/match/f1.yml" :> MatchDoc(<<>>))

DirDisks == {[p \in D |-> DirFiles[p]] : D \in SUBSET DOMAIN DirFiles}

\* What the folder dialog may return, /n being a folder with nothing in it.
DirBrowseResults ==
    {None, Some("/e"), Some("/x"), Some("/y"), Some("/z"), Some("/d"), Some("/f"), Some("/n")}

\* What may be typed into the Location field.
DirTyped == {"/e/", "/e//", "/z", "/y/", ""}

InitDir ==
    /\ egui = "Loading"
    /\ state = StateDefault
    /\ files \in DirDisks
    /\ egui_data \in {None, Some("/z")}
    /\ last = NoMsg
    /\ steps = 0

NextDir ==
    \/ UpdateLoaded
    \/ \E value \in DirTyped : UpdateEspansoDirInputChanged(value)
    \/ \E selected_folder \in DirBrowseResults : UpdateBrowsePressed(selected_folder)
    \/ UpdateSettingsSavePressed

SpecDir == InitDir /\ [][NextDir]_vars

(***************************************************************************)
(* The match files as files: they are opened, renamed and deleted while    *)
(* another program may remove them.  last.str holds what the handler had   *)
(* in hand (the queued destination, the name to rename to), last.idx is 1  *)
(* when the file operation found its file and 0 when it did not.           *)
(***************************************************************************)
MatchFilePaths == {"/e/match/f1.yml", "/e/match/f2.yml"}

\* Another program removes a match file.
FileVanishes(p) ==
    /\ Loaded
    /\ steps < MaxSteps
    /\ p \in DOMAIN files
    /\ files' = RemoveFile(files, p)
    /\ last' = Msg("FileVanishes", p, 0, None)
    /\ steps' = steps + 1
    /\ UNCHANGED <<egui, state, egui_data>>

FilesModalOkPressed ==
    /\ ModalShown
    /\ Step(Msg("ModalOkPressed", state.nav_queue,
                IF IsFile(files, state.selected_file) THEN 1 ELSE 0, None),
            ModalOkPressed(Here))

FilesFileNameChangeSubmit ==
    /\ OnFile
    /\ Step(Msg("FileNameChangeSubmit", state.file_name_change,
                IF IsFile(files, state.selected_file) THEN 1 ELSE 0, None),
            FileNameChangeSubmit(Here))

InitFiles ==
    /\ egui = "Loading"
    /\ state = StateDefault
    /\ files \in InitialDisks
    /\ egui_data = None
    /\ last = NoMsg
    /\ steps = 0

NextFiles ==
    \/ UpdateLoaded
    \/ \E value \in GuardedDestinations \cup {"eg-About"} : UpdateNavigateTo(value)
    \/ \E value \in FileNameChangeInputs : UpdateFileNameChangeInputChanged(value)
    \/ FilesFileNameChangeSubmit
    \/ UpdateDeleteFilePressed
    \/ FilesModalOkPressed
    \/ UpdateModalCancelPressed
    \/ \E p \in MatchFilePaths : FileVanishes(p)

SpecFiles == InitFiles /\ [][NextFiles]_vars

(***************************************************************************)
(* The rows of a match file.  The runtime hands update every message the   *)
(* widgets of one drawn view produced before it draws the next view, so a  *)
(* message may carry an index taken from the list as it was before the     *)
(* preceding message was handled.                                          *)
(***************************************************************************)
\* A text input of the view drawn before the last row was deleted.
BatchedYamlInputChanged(new_str, i, trig_repl) ==
    /\ OnFile
    /\ last.type = "DeleteRowPressed"
    /\ i < Len(state.edited_file.matches) + 1
    /\ Step(Msg("YamlInputChanged", new_str, i, Some(trig_repl)),
            YamlInputChanged(Here, new_str, i, trig_repl))

NextRows ==
    \/ UpdateLoaded
    \/ \E value \in {"f1", "f2"} : UpdateNavigateTo(value)
    \/ UpdateAddPairPressed
    \/ \E new_str \in Str, i \in 0..(MaxPairs + MaxDocLen), trig_repl \in {"trigger", "replace"} :
           UpdateYamlInputChanged(new_str, i, trig_repl)
    \/ \E index \in 0..(MaxPairs + MaxDocLen) : UpdateDeleteRowPressed(index)
    \/ \E new_str \in Str, i \in 0..(MaxPairs + MaxDocLen), trig_repl \in {"trigger", "replace"} :
           BatchedYamlInputChanged(new_str, i, trig_repl)
    \/ UpdateResetPressed

SpecRows == Init /\ [][NextRows]_vars

(***************************************************************************)
(* The modal and the nav buttons, on a disk whose match directory holds a  *)
(* file the user has named eg-Delete.yml.                                  *)
(***************************************************************************)
ModalDisk ==
    ("/e/config/default.yml" :> Doc("enable" :> TRUE)) @@
    ("/e/match/f1.yml" :> MatchDoc(<<YamlPairs("a", "b")>>)) @@
    ("/e/match/eg-Delete.yml" :> MatchDoc(<<YamlPairs("b", "b")>>))

InitModal ==
    /\ egui = "Loading"
    /\ state = StateDefault
    /\ files = ModalDisk
    /\ egui_data = None
    /\ last = NoMsg
    /\ steps = 0

NextModal ==
    \/ UpdateLoaded
    \/ \E destination \in GuardedDestinations : UpdateShowModal(destination)
    \/ \E value \in GuardedDestinations \cup {"eg-About"} : UpdateNavigateTo(value)
    \/ UpdateModalOkPressed
    \/ UpdateCloseModal
    \/ UpdateModalCancelPressed
    \/ \E new_str \in {"", "b"}, i \in 0..MaxPairs, trig_repl \in {"trigger", "replace"} :
           UpdateYamlInputChanged(new_str, i, trig_repl)
    \/ UpdateDeleteFilePressed
    \/ \E value \in BOOLEAN : UpdateEnableToggled(value)

SpecModal == InitModal /\ [][NextModal]_vars

(***************************************************************************)
(* The properties of the edit session.                                     *)
(***************************************************************************)
\* The messages that set one option of the edited configuration.
SetFieldMessages == {"BackendPicked", "EnableToggled", "ToggleKeyPicked", "KeyDelayInput"}

\* The destinations NavigateTo does not take for the stem of a match file.
Screens == {"eg-Config", "eg-Settings", "eg-About"}

\* C1, as the specification words it: a YamlInputChanged, or a message setting
\* a configuration option, that supplies a value different from the one the
\* edited copy holds leaves edited different from original.
C1_DifferentFromCurrent ==
    [][(Loaded /\ egui' = "Loaded") =>
        /\ (/\ last'.type = "YamlInputChanged"
            /\ state.edited_file.matches[last'.idx + 1][last'.val[1]] /= last'.str)
           => state'.edited_file /= state'.original_file
        /\ (/\ last'.type \in SetFieldMessages
            /\ state.edited_config[last'.str] /= last'.val)
           => state'.edited_config /= state'.original_config]_vars

\* C1: dirty-checking. Right after NavigateTo has loaded a match file or the
\* configuration, edited equals original; after a YamlInputChanged, or a
\* message setting a configuration option, whose value differs from the one
\* ORIGINAL holds in that place (or whose row original does not have), edited
\* differs from original; after ResetPressed and after UndoConfigPressed
\* edited equals original again.
C1_DirtyChecking ==
    Loaded =>
        /\ (last.type = "NavigateTo" /\ last.str \notin Screens)
           => state.edited_file = state.original_file
        /\ (/\ last.type = "NavigateTo"
            /\ last.str = "eg-Config"
            /\ ParsedConfigLoads(files, state.selected_file))
           => state.edited_config = state.original_config
        /\ (/\ last.type = "YamlInputChanged"
            /\ \/ last.idx + 1 > Len(state.original_file.matches)
               \/ state.original_file.matches[last.idx + 1][last.val[1]] /= last.str)
           => state.edited_file /= state.original_file
        /\ (/\ last.type \in SetFieldMessages
            /\ state.original_config[last.str] /= last.val)
           => state.edited_config /= state.original_config
        /\ last.type = "ResetPressed" => state.edited_file = state.original_file
        /\ last.type = "UndoConfigPressed" => state.edited_config = state.original_config

\* A replace is typed over in a row original has, with a text original does
\* not hold there, and the session is dirty.
C1_Witness ==
    /\ Loaded
    /\ last.type = "YamlInputChanged"
    /\ last.val = Some("replace")
    /\ last.idx + 1 <= Len(state.original_file.matches)
    /\ state.original_file.matches[last.idx + 1].replace /= last.str
    /\ state.edited_file /= state.original_file

\* C2: SaveFilePressed fails validation exactly when some entry of edited has
\* a trigger or a replace that is empty once its whitespace is trimmed. When
\* it fails the "Empty Lines" modal is shown, no file changes and original is
\* left as it was; when it does not fail no modal comes up and the open file
\* is written.
C2_SaveValidation ==
    [][(Loaded /\ last'.type = "SaveFilePressed") =>
        LET edited == state.edited_file.matches
            blank == \E k \in 1..Len(edited) :
                         Trim(edited[k].trigger) = "" \/ Trim(edited[k].replace) = ""
        IN /\ blank =>
                /\ egui' = "Loaded"
                /\ state'.show_modal
                /\ state'.modal_title = "Empty Lines"
                /\ files' = files
                /\ state'.original_file = state.original_file
                /\ state'.edited_file = state.edited_file
           /\ (~blank /\ egui' = "Loaded") =>
                /\ ~state'.show_modal
                /\ ReadFile(files', state.selected_file) = SerializeEspansoYaml(state.edited_file)]_vars

\* A save is refused because of a text box that holds only a space.
C2_Witness ==
    /\ Loaded
    /\ last.type = "SaveFilePressed"
    /\ state.show_modal
    /\ state.modal_title = "Empty Lines"
    /\ \E k \in 1..Len(state.edited_file.matches) :
           /\ state.edited_file.matches[k].replace = " "
           /\ state.edited_file.matches[k].trigger = "a"
    /\ state.original_file /= state.edited_file

\* C3: a successful save makes edited the new original. After a
\* SaveFilePressed that passes validation the open match file holds exactly
\* the edited entries and original_file equals edited_file; after
\* SaveConfigPressed the configuration file holds the edited configuration
\* and original_config equals edited_config; neither session is dirty.
C3_SaveMakesEditedOriginal ==
    Loaded =>
        /\ (last.type = "SaveFilePressed" /\ ~state.show_modal) =>
              /\ IsFile(files, state.selected_file)
              /\ ReadFile(files, state.selected_file) = SerializeEspansoYaml(state.edited_file)
              /\ ~ReadToTriggersPanics(files, state.selected_file)
              /\ ReadToTriggers(files, state.selected_file) = state.edited_file
              /\ state.original_file = state.edited_file
              /\ ~unsaved_changes
        /\ last.type = "SaveConfigPressed" =>
              /\ IsFile(files, state.selected_file)
              /\ ReadFile(files, state.selected_file) = SerializeParsedConfig(state.edited_config)
              /\ state.original_config = state.edited_config

\* A file of two entries has been saved after an edit.
C3_Witness ==
    /\ Loaded
    /\ last.type = "SaveFilePressed"
    /\ ~state.show_modal
    /\ Len(state.edited_file.matches) = 2
    /\ state.original_file = state.edited_file
    /\ ReadFile(files, state.selected_file) = SerializeEspansoYaml(state.edited_file)

\* C4: the edit session is fresh after every NavigateTo: the copies of the
\* match file hold the default value or what the disk holds for the new
\* target, and nothing edited before the navigation survives it, neither in
\* the match-file copies nor in the configuration copies: edited equals
\* original in both.
C4_FreshOnNavigation ==
    (Loaded /\ last.type = "NavigateTo") =>
        /\ state.edited_file = state.original_file
        /\ \/ state.original_file = EspansoYamlDefault
           \/ /\ last.str \notin Screens
              /\ state.original_file = ReadToTriggers(files, state.selected_file)
        /\ state.edited_config = state.original_config

\* C5, as the specification words it: original_file and original_config are
\* replaced only in a NavigateTo step, by the default value or by what the
\* disk holds, or in a successful save, by the value of edited; every other
\* message, the modal's among them, leaves both as they were.
C5_OnlyNavigateToOrSave ==
    [][/\ state'.original_file /= state.original_file =>
            \/ /\ last'.type = "NavigateTo"
               /\ \/ state'.original_file = EspansoYamlDefault
                  \/ state'.original_file = ReadToTriggers(files', state'.selected_file)
            \/ /\ last'.type = "SaveFilePressed"
               /\ state'.original_file = state.edited_file
       /\ state'.original_config /= state.original_config =>
            \/ last'.type = "NavigateTo" /\ last'.str = "eg-Config"
            \/ /\ last'.type = "SaveConfigPressed"
               /\ state'.original_config = state.edited_config]_vars

\* C5: original_file and original_config are replaced only by NavigateTo,
\* whether it comes from a nav button or is run by ModalOkPressed for the
\* queued destination (Settings after a delete), with the default value or
\* with what the disk holds, or by a successful save, with the value of
\* edited. Every other message leaves both as they were: the edits, adding
\* and deleting rows, Reset, Undo, Reset-to-defaults, ShowModal, CloseModal,
\* ModalCancelPressed, a ModalOkPressed with nothing queued, renaming, the
\* settings messages and a save that fails validation.
C5_OriginalReplacedOnlyBy ==
    [][LET navigates ==
               \/ last'.type = "NavigateTo"
               \/ last'.type = "ModalOkPressed" /\ state.nav_queue /= ""
           destination ==
               IF last'.type = "NavigateTo" THEN last'.str
               ELSE IF state.nav_queue = "eg-Delete" THEN "eg-Settings"
               ELSE state.nav_queue
       IN /\ state'.original_file /= state.original_file =>
               \/ /\ navigates
                  /\ \/ state'.original_file = EspansoYamlDefault
                     \/ /\ destination \notin Screens
                        /\ state'.original_file = ReadToTriggers(files', state'.selected_file)
               \/ /\ last'.type = "SaveFilePressed"
                  /\ ~state'.show_modal
                  /\ state'.original_file = state.edited_file
          /\ state'.original_config /= state.original_config =>
               \/ /\ navigates
                  /\ destination = "eg-Config"
                  /\ ParsedConfigLoads(files', state'.selected_file)
               \/ /\ last'.type = "SaveConfigPressed"
                  /\ state'.original_config = state.edited_config]_vars

\* The OK of the Unsaved Changes modal has opened another match file: the
\* original of the file left behind was replaced by what the disk holds.
C5_Witness ==
    /\ Loaded
    /\ last.type = "ModalOkPressed"
    /\ state.selected_nav \notin Screens
    /\ state.original_file.matches /= <<>>
    /\ state.original_file = ReadToTriggers(files, state.selected_file)

(***************************************************************************)
(* The properties of the configuration screen, under SpecConfig.           *)
(***************************************************************************)
\* The keys of the configuration file as it is on disk; none when the file
\* does not load.
KeysOnDisk(fs, path) ==
    IF ParsedConfigLoads(fs, path) THEN DOMAIN ReadFile(fs, path).map ELSE {}

\* C6, as the specification words it: a SaveConfigPressed writes no entry for
\* an option the file did not set and the user left as loaded, the two
\* picker options aside; and a file holding only enable: true, saved with
\* enable and key_delay left alone, holds enable: true and at most the two
\* picker options.
C6_UnsetInFileStaysUnset ==
    [][(Loaded /\ last'.type = "SaveConfigPressed" /\ egui' = "Loaded") =>
        LET before == KeysOnDisk(files, state.selected_file)
            after == ReadFile(files', state.selected_file).map
        IN /\ \A f \in ParsedConfigFields \ {"backend", "toggle_key"} :
                  (f \notin before /\ state.edited_config[f] = state.original_config[f])
                  => f \notin DOMAIN after
           /\ (/\ ReadFile(files, state.selected_file) = Doc("enable" :> TRUE)
               /\ state.edited_config.enable = state.original_config.enable
               /\ state.edited_config.key_delay = state.original_config.key_delay)
              => /\ DOMAIN after \subseteq {"enable", "backend", "toggle_key"}
                 /\ after["enable"] = TRUE]_vars

\* C6: a SaveConfigPressed writes no entry for an option that loaded as
\* unset and that the user left as loaded, the two picker options aside;
\* key_delay loads as set when the file has it under the legacy key
\* backspace_delay, and is then written under its own name. A file holding
\* only enable: true, saved with enable and key_delay left alone, holds
\* enable: true and at most the two picker options.
C6_UnsetAsLoadedStaysUnset ==
    [][(Loaded /\ last'.type = "SaveConfigPressed" /\ egui' = "Loaded") =>
        LET before == KeysOnDisk(files, state.selected_file)
            after == ReadFile(files', state.selected_file).map
        IN /\ \A f \in ParsedConfigFields \ {"backend", "toggle_key"} :
                  (/\ f \notin before
                   /\ ~(f = "key_delay" /\ "backspace_delay" \in before)
                   /\ state.edited_config[f] = state.original_config[f])
                  => f \notin DOMAIN after
           /\ ("backspace_delay" \in before /\ "key_delay" \notin before
                  /\ state.edited_config.key_delay = state.original_config.key_delay)
              => /\ "key_delay" \in DOMAIN after
                 /\ after["key_delay"] = ReadFile(files, state.selected_file).map["backspace_delay"]
           /\ (/\ ReadFile(files, state.selected_file) = Doc("enable" :> TRUE)
               /\ state.edited_config.enable = state.original_config.enable
               /\ state.edited_config.key_delay = state.original_config.key_delay)
              => /\ DOMAIN after \subseteq {"enable", "backend", "toggle_key"}
                 /\ after["enable"] = TRUE]_vars

\* The file that held only enable: true has been saved after a pick of the
\* backend: it holds enable: true and the two picker options.
C6_Witness ==
    /\ Loaded
    /\ last.type = "SaveConfigPressed"
    /\ ReadFile(files, state.selected_file) =
           Doc([enable |-> TRUE, backend |-> "Clipboard", toggle_key |-> "OFF"])

\* C7: after NavigateTo("eg-Config") with a load that succeeds, backend and
\* toggle_key are set in both copies: to what the file gives them, and to
\* "Auto" and "OFF" where the file does not set them; and edited_config
\* equals original_config, so the Save and Undo buttons are off.
C7_PickersCoerced ==
    (/\ Loaded
     /\ last.type = "NavigateTo"
     /\ last.str = "eg-Config"
     /\ ParsedConfigLoads(files, state.selected_file))
    => LET on_disk == ReadFile(files, state.selected_file).map
           backend == IF "backend" \in DOMAIN on_disk
                      THEN Some(on_disk["backend"]) ELSE Some("Auto")
           toggle_key == IF "toggle_key" \in DOMAIN on_disk
                         THEN Some(on_disk["toggle_key"]) ELSE Some("OFF")
       IN /\ state.original_config.backend = backend
          /\ state.edited_config.backend = backend
          /\ state.original_config.toggle_key = toggle_key
          /\ state.edited_config.toggle_key = toggle_key
          /\ state.edited_config = state.original_config
          /\ ~ENABLED UpdateSaveConfigPressed
          /\ ~ENABLED UpdateUndoConfigPressed

\* A configuration that sets neither picker option has been loaded.
C7_Witness ==
    /\ Loaded
    /\ last.type = "NavigateTo"
    /\ last.str = "eg-Config"
    /\ ReadFile(files, state.selected_file) = Doc("enable" :> TRUE)
    /\ state.original_config.backend = Some("Auto")
    /\ state.edited_config.toggle_key = Some("OFF")

(***************************************************************************)
(* The properties of the match-file store, under SpecStore.                *)
(***************************************************************************)
\* The entries of a match file as they are on disk, the empty ones included.
EntriesOnDisk(fs, path) == DeserializeEspansoYaml(ReadFile(fs, path)).matches

NoEmptyField(matches) ==
    \A k \in 1..Len(matches) : matches[k].trigger /= "" /\ matches[k].replace /= ""

\* C8: the round trip of a match file. When a sequence of entries with no
\* empty trigger and no empty replace has been written to a path, by
\* write_from_triggers or by a SaveFilePressed that passed validation, the
\* read of that path gives the same entries, with the same values in the
\* same order, repeated triggers included.
C8_RoundTrip ==
    [][(/\ Loaded
        /\ \/ last.type = "write_from_triggers"
           \/ last.type = "SaveFilePressed" /\ ~state.show_modal
        /\ last'.type = "NavigateTo"
        /\ NoEmptyField(state.edited_file.matches))
       => /\ egui' = "Loaded"
          /\ state'.original_file = state.edited_file
          /\ state'.edited_file = state.edited_file
          /\ files' = files]_vars

\* Two entries with the same trigger, one with a blank replace, have been
\* written and read back.
C8_Witness ==
    /\ Loaded
    /\ last = Msg("NavigateTo", "f1", 0, Some("write_from_triggers"))
    /\ state.original_file.matches = <<YamlPairs("a", " "), YamlPairs("a", "b")>>
    /\ state.edited_file = state.original_file

\* C9, as the specification words it: loading any match file that loads and
\* saving it with no edit in between leaves the entries of the file, their
\* order and their values as they were.
C9_LoadThenSave ==
    [][(Loaded /\ last.type = "NavigateTo" /\ last'.type = "SaveFilePressed")
       => /\ egui' = "Loaded"
          /\ EntriesOnDisk(files', state.selected_file) =
                 EntriesOnDisk(files, state.selected_file)]_vars

\* C9: loading a match file that loads and in which no entry has an empty
\* trigger or an empty replace, and saving it with no edit in between,
\* leaves the entries of the file, their order and their values as they
\* were.
C9_LoadThenSaveNoEmptyField ==
    [][(/\ Loaded
        /\ last.type = "NavigateTo"
        /\ last'.type = "SaveFilePressed"
        /\ NoEmptyField(EntriesOnDisk(files, state.selected_file)))
       => /\ egui' = "Loaded"
          /\ EntriesOnDisk(files', state.selected_file) =
                 EntriesOnDisk(files, state.selected_file)]_vars

\* A hand-written file of two entries has been loaded and saved: the editor
\* wrote it in its own form, with the entries it had.
C9_Witness ==
    /\ Loaded
    /\ last = Msg("SaveFilePressed", "", 0, Some("NavigateTo"))
    /\ ~state.show_modal
    /\ EntriesOnDisk(files, state.selected_file) = <<YamlPairs("a", "b"), YamlPairs("b", "a")>>
    /\ ReadFile(files, state.selected_file) = SerializeEspansoYaml(state.original_file)

\* C10: the read of a match file drops exactly the entries whose trigger or
\* replace is the empty string as read, untrimmed, keeps the others in their
\* order, and leaves the file as it is; a file changes only in a write or
\* in a save that passes validation.
C10_LoadDropsEmptyAsRead ==
    [][/\ (Loaded /\ last'.type = "NavigateTo" /\ egui' = "Loaded")
          => /\ state'.original_file.matches =
                    SelectSeq(EntriesOnDisk(files, state'.selected_file),
                              LAMBDA p : p.trigger /= "" /\ p.replace /= "")
             /\ files' = files
       /\ files' /= files
          => \/ last'.type = "write_from_triggers"
             \/ last'.type = "SaveFilePressed" /\ ~state'.show_modal]_vars

\* Of two entries on disk the one with the empty trigger was dropped and the
\* one with the blank replace kept; the file still holds both.
C10_Witness ==
    /\ Loaded
    /\ last.type = "NavigateTo"
    /\ EntriesOnDisk(files, state.selected_file) = <<YamlPairs("", "a"), YamlPairs("b", " ")>>
    /\ state.original_file.matches = <<YamlPairs("b", " ")>>

(***************************************************************************)
(* The properties of the Settings screen, checked under SpecDir.           *)
(***************************************************************************)
\* The step is the handling of a message of this type.
Handles(type) == steps' = steps + 1 /\ last'.type = type

HasConfigMatchAndYml(fs, d) ==
    /\ (d \o "/config") \in Directories
    /\ (d \o "/match") \in Directories
    /\ (d \o "/config/default.yml") \in DOMAIN fs

\* C12: valid_espanso_dir answers true exactly when path/config is a
\* directory, path/match is a directory and path/config/default.yml is a
\* regular file, whatever else the disk holds, and it changes nothing: a
\* BrowsePressed step over a picked folder sets directory_invalid to the
\* negation of that, takes the folder as espanso_loc when it holds, and
\* leaves the rest of the State, the disk and the preferences alone.
C12_ValidatorIffAllThree ==
    [][(Handles("BrowsePressed") /\ IsSome(last'.val)) =>
          LET d == last'.val[1]
              ok == HasConfigMatchAndYml(files, d)
          IN /\ ValidEspansoDir(files, d) = ok
             /\ state' = [state EXCEPT !.directory_invalid = ~ok,
                                       !.espanso_loc = IF ok THEN d ELSE @]
             /\ files' = files
             /\ egui_data' = egui_data]_vars

\* A folder with all three and an unrelated file was picked and accepted,
\* on a disk where another folder's config is a regular file; the
\* preferences still name the folder they named at startup.
C12_Witness ==
    /\ last.type = "BrowsePressed"
    /\ last.val = Some("/e")
    /\ "/e/notes.txt" \in DOMAIN files
    /\ "/f/config" \in DOMAIN files
    /\ ~state.directory_invalid
    /\ state.espanso_loc = "/e"
    /\ egui_data = Some("/z")

(***************************************************************************)
(* The properties of the match files as files: creating, renaming and      *)
(* deleting them.                                                          *)
(***************************************************************************)
\* The characters of s.
CharsOf(s) == {Char(s, i) : i \in 1..Len(s)}

\* The stem is made of word characters, hyphens, periods and spaces only.
StemIsValid(stem) ==
    /\ stem /= ""
    /\ CharsOf(stem) \subseteq WordChars \cup {"-", ".", " "}

\* C13: FileNameChangeSubmit renames only when the new stem is made of word
\* characters, hyphens, periods and spaces and differs from the current
\* stem; in every other case the files, selected_nav and selected_file are
\* what they were.  A typed name with a '/' never becomes the new stem, and
\* 'My Snippets-1' does.
C13_RenameOnlyToValidName ==
    [][/\ (/\ Handles("FileNameChangeSubmit")
           /\ ~(/\ StemIsValid(state.file_name_change)
                /\ state.file_name_change /= state.selected_nav)) =>
            /\ files' = files
            /\ state'.selected_nav = state.selected_nav
            /\ state'.selected_file = state.selected_file
       /\ (/\ Handles("FileNameChangeSubmit")
           /\ StemIsValid(state.file_name_change)
           /\ state.file_name_change /= state.selected_nav) =>
            /\ state'.selected_nav = state.file_name_change
            /\ RenameOk(files, state.selected_file, state'.selected_file) =>
                   /\ state'.selected_file \in DOMAIN files'
                   /\ state.selected_file \notin DOMAIN files'
       /\ Handles("FileNameChangeInputChanged") =>
            /\ files' = files
            /\ state'.file_name_change =
                   IF StemIsValid(last'.str) THEN last'.str
                   ELSE state.file_name_change]_vars

\* The file was renamed to 'My Snippets-1', and two steps later, a name with
\* a '/' typed in between or not, a further submit has left it there.
C13_Witness ==
    /\ last.type = "FileNameChangeSubmit"
    /\ steps = 5
    /\ state.selected_nav = "My Snippets-1"
    /\ state.file_name_change = "My Snippets-1"
    /\ state.selected_file = "/e/match/My Snippets-1.yml"
    /\ "/e/match/My Snippets-1.yml" \in DOMAIN files
    /\ "/e/match/f1.yml" \notin DOMAIN files

\* The stem SubmitNewFileName makes of the typed name, and the path it hands
\* to create_new_yml_file.
EnteredStem == TrimEndMatches(state.new_file_name, ".yml")

EnteredPath == CanonPath(state.espanso_loc \o "/match/" \o EnteredStem \o ".yml")

\* C14, as the specification words it: a SubmitNewFileName whose entered
\* stem is not made of word characters, hyphens, periods and spaces creates
\* no file and writes none.
C14_NoCreateOnInvalidName ==
    [][(Handles("SubmitNewFileName") /\ ~StemIsValid(EnteredStem)) =>
          files' = files]_vars

\* C15, as the specification words it: a SubmitNewFileName given the stem of
\* a match file that exists and holds entries leaves the entries of that
\* file as they were.
C15_NoClobberOnCreate ==
    [][(/\ Handles("SubmitNewFileName")
        /\ EnteredPath \in DOMAIN files
        /\ EspansoYamlParses(files[EnteredPath])) =>
          /\ EnteredPath \in DOMAIN files'
          /\ EspansoYamlParses(files'[EnteredPath])
          /\ EntriesOnDisk(files', EnteredPath) = EntriesOnDisk(files, EnteredPath)]_vars

\* The stems of the .yml files that lie in the directory dir of the disk fs.
StemsIn(fs, dir) ==
    {TrimEndMatches(FileName(p), ".yml") :
        p \in {q \in DOMAIN fs : Parent(q) = dir /\ EndsWith(q, ".yml")}}

\* The sequence lists the set, each member once.
Lists(seq, set) ==
    /\ {seq[i] : i \in 1..Len(seq)} = set
    /\ Len(seq) = Cardinality(set)

C17_ListedAfterRename ==
    [][(/\ Handles("FileNameChangeSubmit")
        /\ StemIsValid(state.file_name_change)
        /\ state.file_name_change /= state.selected_nav) =>
          /\ egui' = "Loaded"
          /\ Lists(state'.match_files, StemsIn(files', state.espanso_loc \o "/match"))]_vars

\* A rename to "new" was tried on a file another program had removed: it
\* failed, and the list shows neither the old stem nor the new one.
C17_Witness ==
    /\ last = Msg("FileNameChangeSubmit", "new", 0, None)
    /\ egui = "Loaded"
    /\ state.selected_nav = "new"
    /\ state.selected_file = "/e/match/new.yml"
    /\ "/e/match/new.yml" \notin DOMAIN files
    /\ state.match_files = <<"f2">>

(***************************************************************************)
(* Further properties of the configuration, checked under SpecConfig.      *)
(***************************************************************************)
\* C18: ResetConfigPressed leaves in edited_config the record of
\* ParsedConfig::default() with backend "Auto" and toggle_key "OFF", whatever
\* edited_config held before; original_config and the files are unchanged.
C18_ResetToDefaults ==
    [][Handles("ResetConfigPressed") =>
          /\ state'.edited_config =
                 [f \in ParsedConfigFields |->
                     CASE f = "backend" -> Some("Auto")
                       [] f = "toggle_key" -> Some("OFF")
                       [] OTHER -> ParsedConfigDefault[f]]
          /\ state'.original_config = state.original_config
          /\ files' = files
          /\ egui' = "Loaded"]_vars

\* A configuration loaded from a file that sets every option was edited and
\* then reset: the edited copy holds the defaults, the original copy what
\* the file holds.
C18_Witness ==
    /\ last.type = "ResetConfigPressed"
    /\ steps >= 3
    /\ state.original_config =
           [backend |-> Some("Clipboard"), toggle_key |-> Some("ALT"),
            enable |-> Some(TRUE), key_delay |-> Some(0),
            word_separators |-> None, keyboard_layout |-> None]
    /\ state.edited_config =
           [backend |-> Some("Auto"), toggle_key |-> Some("OFF"),
            enable |-> None, key_delay |-> None,
            word_separators |-> None, keyboard_layout |-> None]

\* C19: when the configuration is loaded, key_delay is the file's key_delay
\* if the file has one, else the file's backspace_delay if it has one, else
\* unset: a file with only backspace_delay: 50 loads with key_delay 50, a
\* file with both loads the value of key_delay, a file with neither loads
\* key_delay unset.
C19_LegacyKeyFallback ==
    [][(/\ Handles("NavigateTo")
        /\ last'.str = "eg-Config"
        /\ ParsedConfigLoads(files, state'.selected_file)) =>
          LET on_disk == ReadFile(files, state'.selected_file).map
              loaded == state'.original_config.key_delay
          IN /\ "key_delay" \in DOMAIN on_disk =>
                    loaded = Some(on_disk["key_delay"])
             /\ ("key_delay" \notin DOMAIN on_disk /\ "backspace_delay" \in DOMAIN on_disk) =>
                    loaded = Some(on_disk["backspace_delay"])
             /\ DOMAIN on_disk \cap {"key_delay", "backspace_delay"} = {} =>
                    loaded = None
             /\ state'.edited_config.key_delay = loaded]_vars

\* The file holds backspace_delay: 50 and no key_delay, and the loaded
\* configuration has key_delay 50.
C19_Witness ==
    /\ last = Msg("NavigateTo", "eg-Config", 0, None)
    /\ files["/e/config/default.yml"] = Doc("backspace_delay" :> 50)
    /\ state.original_config.key_delay = Some(50)

(***************************************************************************)
(* Which file operations end the process.                                  *)
(***************************************************************************)
\* The messages whose handlers call read_to_triggers or write_from_triggers.
MatchFileReadOrWrite == {"NavigateTo", "ModalOkPressed", "SaveFilePressed"}

\* C20, as the specification words it: the process ends on a file operation
\* only in the read of a match file and in the write of a match file; the
\* other file operations, the creation of a new file and the saving of the
\* configuration among them, leave the application running.
C20_OnlyMatchFileIOTerminates ==
    [][(egui = "Loaded" /\ egui' = "Panicked") =>
          last'.type \in MatchFileReadOrWrite]_vars

(***************************************************************************)
(* Loads that fail, indices out of range, and the frame of the edits.      *)
(***************************************************************************)
\* C21, as the specification words it: when the file NavigateTo is to load
\* is missing, is not YAML or has the wrong shape, the application keeps
\* running and both copies of the session hold the empty or default value,
\* for a match file and for the configuration alike.
C21_FailedLoadGivesEmptyCopy ==
    [][/\ (/\ Handles("NavigateTo")
           /\ last'.str \notin Screens
           /\ ReadToTriggersPanics(files, state.espanso_loc \o "/match/" \o last'.str \o ".yml")) =>
            /\ egui' = "Loaded"
            /\ state'.original_file = EspansoYamlDefault
            /\ state'.edited_file = EspansoYamlDefault
       /\ (/\ Handles("NavigateTo")
           /\ last'.str = "eg-Config"
           /\ ~ParsedConfigLoads(files, state.espanso_loc \o "/config/default.yml")) =>
            /\ egui' = "Loaded"
            /\ state'.original_config = ParsedConfigDefault
            /\ state'.edited_config = ParsedConfigDefault]_vars

\* C22, as the specification words it: a YamlInputChanged whose index is not
\* below the length of edited_file.matches leaves edited_file and
\* original_file as they were, and the application keeps running.
C22_IndexOutOfRange ==
    [][(/\ Handles("YamlInputChanged")
        /\ last'.idx >= Len(state.edited_file.matches)) =>
          /\ egui' = "Loaded"
          /\ state'.edited_file = state.edited_file
          /\ state'.original_file = state.original_file]_vars

\* The field of ParsedConfig each input message of the configuration sets.
FieldOfMessage ==
    [BackendPicked |-> "backend", EnableToggled |-> "enable",
     ToggleKeyPicked |-> "toggle_key", KeyDelayInput |-> "key_delay"]

\* C23: an input message of the configuration (a picker, a toggler, a number
\* input) sets its own field of edited_config to Some of the value it
\* carries, and leaves the other fields of edited_config, original_config,
\* the rest of the State and the files as they were.
C23_SetFieldSetsOneField ==
    [][(\E type \in DOMAIN FieldOfMessage : Handles(type)) =>
          LET field == FieldOfMessage[last'.type]
          IN /\ egui' = "Loaded"
             /\ state'.edited_config[field] = last'.val
             /\ IsSome(last'.val)
             /\ \A f \in ParsedConfigFields \ {field} :
                    state'.edited_config[f] = state.edited_config[f]
             /\ state'.original_config = state.original_config
             /\ [state' EXCEPT !.edited_config = state.edited_config] = state
             /\ files' = files]_vars

\* The delay was set to 50 on a configuration whose file holds key_delay 0
\* and enable true: the edited copy differs from the original in key_delay
\* only.
C23_Witness ==
    /\ last = Msg("KeyDelayInput", "key_delay", 0, Some(50))
    /\ state.original_config.key_delay = Some(0)
    /\ state.edited_config = [state.original_config EXCEPT !.key_delay = Some(50)]
    /\ state.original_config.enable = Some(TRUE)

\* C24: AddPairPressed appends one entry with an empty trigger and an empty
\* replace at the end of edited_file.matches; DeleteRowPressed(i) removes
\* the entry at position i; in both the other entries keep their values and
\* their order, and original_file, the rest of the State and the files are
\* unchanged.
C24_PairEditsTouchOnePosition ==
    [][/\ Handles("AddPairPressed") =>
            LET old == state.edited_file.matches
                new == state'.edited_file.matches
            IN /\ Len(new) = Len(old) + 1
               /\ new[Len(new)] = [trigger |-> "", replace |-> ""]
               /\ \A k \in 1..Len(old) : new[k] = old[k]
       /\ (Handles("DeleteRowPressed") /\ last'.idx < Len(state.edited_file.matches)) =>
            LET old == state.edited_file.matches
                new == state'.edited_file.matches
                i == last'.idx + 1
            IN /\ Len(new) = Len(old) - 1
               /\ \A k \in 1..Len(new) : new[k] = IF k < i THEN old[k] ELSE old[k + 1]
       /\ (Handles("AddPairPressed") \/ Handles("DeleteRowPressed")) =>
            /\ egui' = "Loaded"
            /\ [state' EXCEPT !.edited_file = state.edited_file] = state
            /\ files' = files]_vars

\* A row was added to a file of one entry and filled in, and the first row
\* was deleted: the added row is the one left, and the original copy still
\* holds the file's entry.
C24_Witness ==
    /\ last = Msg("DeleteRowPressed", "", 0, None)
    /\ Len(state.original_file.matches) = 1
    /\ Len(state.edited_file.matches) = 1
    /\ state.edited_file.matches[1] = YamlPairs("b", "a")
    /\ state.original_file.matches[1] = YamlPairs("a", "b")

(***************************************************************************)
(* Navigation, the modal, and the data directory.                          *)
(***************************************************************************)
\* C25, as the specification words it: a ModalOkPressed that answers a
\* modal DeleteFilePressed did not open, the Unsaved Changes modal for any
\* destination among them, removes no file from the disk.
C25_OnlyDeleteModalDeletes ==
    [][(Handles("ModalOkPressed") /\ state.modal_title /= "Delete file?") =>
          DOMAIN files \subseteq DOMAIN files']_vars

\* C26, as the specification words it: while the open match file is dirty a
\* nav button of a file, of Config or of Settings does not navigate but
\* opens the Unsaved Changes modal with its destination queued;
\* ModalOkPressed on that modal navigates to the queued destination and
\* clears the queue; ModalCancelPressed hides the modal, clears the queue
\* and leaves selected_nav and both copies as they were.
C26_UnsavedChangesGuard ==
    [][/\ (Handles("NavigateTo") /\ unsaved_changes) => last'.str = "eg-About"
       /\ Handles("ShowModal") =>
            /\ unsaved_changes
            /\ state' = [state EXCEPT
                   !.show_modal = TRUE,
                   !.nav_queue = last'.str,
                   !.modal_title = "Unsaved Changes",
                   !.modal_description = "Leaving this file with erase any unsaved changes."]
            /\ files' = files
       /\ (/\ Handles("ModalOkPressed")
           /\ state.modal_title = "Unsaved Changes"
           /\ state.nav_queue /= "") =>
            /\ egui' = "Loaded"
            /\ state'.selected_nav = state.nav_queue
            /\ state'.nav_queue = ""
            /\ ~state'.show_modal
       /\ Handles("ModalCancelPressed") =>
            /\ state' = [state EXCEPT !.show_modal = FALSE,
                                      !.nav_queue = "",
                                      !.modal_ok_text = "OK"]
            /\ files' = files]_vars

\* C27, as the specification words it: a nav button pressed while a session
\* is dirty, the match file's or the configuration's, discards no edit
\* unless the Unsaved Changes modal has been confirmed: a NavigateTo that
\* comes straight from a button leaves a dirty edited copy as it was.
C27_NoSilentDiscard ==
    [][Handles("NavigateTo") =>
          /\ unsaved_changes => state'.edited_file = state.edited_file
          /\ state.edited_config /= state.original_config =>
                 state'.edited_config = state.edited_config]_vars

\* The world a handler starts from after the step.
HereAfter == World(state', files', egui_data', FALSE)

\* What the nav buttons of the match files and of Config lead to.
FileDestinations(st) == {st.match_files[i] : i \in 1..Len(st.match_files)} \cup {"eg-Config"}

\* C28, as the specification words it: while the directory in use is one
\* that passes validation, an EspansoDirInputChanged, or a SettingsSavePressed
\* that fails validation, does not change which file a later NavigateTo to a
\* listed stem or to Config opens, and a stem that could be opened before the
\* step can be opened after it.
C28_TypingKeepsDataDirectory ==
    [][(/\ ValidEspansoDir(files, state.espanso_loc)
        /\ \/ Handles("EspansoDirInputChanged")
           \/ Handles("SettingsSavePressed") /\ state'.directory_invalid) =>
          \A value \in FileDestinations(state) :
              LET before == NavigateTo(Here, value)
                  after == NavigateTo(HereAfter, value)
              IN /\ CanonPath(after.state.selected_file) =
                        CanonPath(before.state.selected_file)
                 /\ after.panicked = before.panicked]_vars

(***************************************************************************)
(* Text typed into the parsed fields, checked under SpecText.              *)
(***************************************************************************)
\* C29, as the specification words it: whatever text a WordSeparatorsInput
\* or a KeyboardLayoutInput carries, the update completes and the
\* application stays Loaded.
C29_TypedTextNeverTerminates ==
    [][Handles("WordSeparatorsInput") \/ Handles("KeyboardLayoutInput") =>
          egui' = "Loaded"]_vars

(***************************************************************************)
(* The listed stems and the files they come from, checked under            *)
(* SpecNested.                                                             *)
(***************************************************************************)
\* The files below match/ whose stem is the given one.
FilesOfStem(fs, match_dir, stem) ==
    {p \in DOMAIN fs : /\ IsBelow(p, match_dir)
                       /\ HasExtension(p)
                       /\ Extension(p) = "yml"
                       /\ FileStem(p) = stem}

\* C30, as the specification words it: a NavigateTo to a stem of match_files
\* completes and opens the file the stem was derived from, for every file
\* the walk of the match directory found, those in subfolders included.
C30_ListedStemOpensItsFile ==
    [][(/\ Handles("NavigateTo")
        /\ \E i \in 1..Len(state.match_files) : state.match_files[i] = last'.str) =>
          /\ egui' = "Loaded"
          /\ \A p \in FilesOfStem(files, PathJoin(state.espanso_loc, "match"), last'.str) :
                 CanonPath(state'.selected_file) = p]_vars

(***************************************************************************)
(* The rename of the open match file and what follows it.                  *)
(***************************************************************************)
\* FileNameChangeSubmit passes its guard: the entered name differs from the
\* open file's and is a valid file name.
RenameAttempted ==
    /\ state.file_name_change /= state.selected_nav
    /\ IsValidFileName(state.file_name_change)

\* C31, as the specification words it: after a FileNameChangeSubmit that
\* attempts the rename, whether the rename succeeded or failed,
\* selected_file is a file of the disk and selected_nav is one of
\* match_files.
C31_SelectionExistsAfterRename ==
    [][(Handles("FileNameChangeSubmit") /\ RenameAttempted) =>
          /\ IsFile(files', state'.selected_file)
          /\ \E i \in 1..Len(state'.match_files) :
                 state'.match_files[i] = state'.selected_nav]_vars

\* The path of the open match file as FileNameChangeSubmit builds it.
RenamedFrom ==
    CanonPath(PathJoin(PathJoin(state.espanso_loc, "match"), state.selected_nav \o ".yml"))

\* C32, as the specification words it: after FileNameChangeSubmit every
\* match file that was on the disk before, other than the renamed one, is
\* still there and holds what it held.
C32_RenameKeepsOtherFiles ==
    [][Handles("FileNameChangeSubmit") =>
          \A p \in DOMAIN files :
              (IsBelow(p, PathJoin(state.espanso_loc, "match")) /\ p /= RenamedFrom) =>
                  /\ p \in DOMAIN files'
                  /\ files'[p] = files[p]]_vars

(***************************************************************************)
(* What a load lets in and what a save lets out.                           *)
(***************************************************************************)
\* C33, as the specification words it: when a match file has been loaded,
\* by NavigateTo or by the OK of the unsaved-changes modal, every entry of
\* the edited copy passes the validation of SaveFilePressed: no trigger and
\* no replace is empty after trimming.
C33_LoadedEntriesPassSaveValidation ==
    [][((Handles("NavigateTo") \/ Handles("ModalOkPressed")) /\ egui' = "Loaded") =>
          ~EmptyLines(state'.edited_file.matches)]_vars

(***************************************************************************)
(* When the Save, Reset and Undo buttons are live.                         *)
(***************************************************************************)
\* C34: every step that handles SaveFilePressed or ResetPressed starts with
\* edited_file.matches different from original_file.matches, and every step
\* that handles SaveConfigPressed or UndoConfigPressed starts with
\* edited_config different from original_config, so no file is written for
\* a document that was not changed; and in every state the application
\* leaves by a step, while the screen of a match file is live the Reset
\* button, which the view gives the same condition as the Save button, can
\* emit its message exactly when the copies of the file differ, and while
\* the Config screen is live the Undo button can exactly when the copies of
\* the configuration differ.
C34_SaveAndResetOnlyWhenDirty ==
    [][/\ (Handles("SaveFilePressed") \/ Handles("ResetPressed")) =>
              state.edited_file.matches /= state.original_file.matches
       /\ (Handles("SaveConfigPressed") \/ Handles("UndoConfigPressed")) =>
              state.edited_config /= state.original_config
       /\ (last'.type \in {"SaveFilePressed", "SaveConfigPressed"} /\ files' /= files) =>
              \/ state.edited_file.matches /= state.original_file.matches
              \/ state.edited_config /= state.original_config
       /\ (OnFile /\ steps < MaxSteps) =>
              ((ENABLED UpdateResetPressed) <=>
                   state.edited_file.matches /= state.original_file.matches)
       /\ (OnConfig /\ steps < MaxSteps) =>
              ((ENABLED UpdateUndoConfigPressed) <=>
                   state.edited_config /= state.original_config)]_vars

\* A changed match file was saved and the write reached the disk: the two
\* copies are equal again and the Reset button is dead.
C34_Witness ==
    /\ last.type = "SaveFilePressed"
    /\ OnFile
    /\ steps < MaxSteps
    /\ state.edited_file.matches = state.original_file.matches
    /\ ReadFile(files, state.selected_file) = SerializeEspansoYaml(state.edited_file)
    /\ ~ENABLED UpdateResetPressed

\* The path FileNameChangeSubmit renames the open match file to.
RenamedTo ==
    CanonPath(PathJoin(PathJoin(state.espanso_loc, "match"),
                       state.file_name_change \o ".yml"))

\* C35: a FileNameChangeSubmit whose rename succeeds leaves original_file
\* and edited_file as they were, sets selected_nav to the new name and
\* selected_file to the new path, where the file then is, the old path
\* holding no file; and a SaveFilePressed that follows it and writes, writes
\* the edited entries to selected_file and creates no file and changes no
\* other.
C35_RenameKeepsEditSession ==
    [][/\ (/\ Handles("FileNameChangeSubmit")
           /\ RenameAttempted
           /\ RenameOk(files, RenamedFrom, RenamedTo)) =>
              /\ egui' = "Loaded"
              /\ state'.original_file = state.original_file
              /\ state'.edited_file = state.edited_file
              /\ state'.selected_nav = state.file_name_change
              /\ CanonPath(state'.selected_file) = RenamedTo
              /\ RenamedTo \in DOMAIN files'
              /\ files'[RenamedTo] = files[RenamedFrom]
              /\ RenamedFrom \notin DOMAIN files'
       /\ (/\ Handles("SaveFilePressed")
           /\ last.type = "FileNameChangeSubmit"
           /\ IsFile(files, state.selected_file)
           /\ egui' = "Loaded"
           /\ ~state'.show_modal) =>
              /\ DOMAIN files' = DOMAIN files
              /\ files'[CanonPath(state.selected_file)] =
                     SerializeEspansoYaml(state.edited_file)
              /\ \A p \in DOMAIN files \ {CanonPath(state.selected_file)} :
                     files'[p] = files[p]
              /\ state'.original_file = state.edited_file]_vars

\* In five steps the file f1 was opened, edited, renamed to "new" and saved:
\* new.yml holds the edited entries and there is no f1.yml.
C35_Witness ==
    /\ last.type = "SaveFilePressed"
    /\ egui = "Loaded"
    /\ ~state.show_modal
    /\ state.selected_nav = "new"
    /\ state.selected_file = "/e/match/new.yml"
    /\ "/e/match/f1.yml" \notin DOMAIN files
    /\ "/e/match/new.yml" \in DOMAIN files
    /\ files["/e/match/new.yml"] = SerializeEspansoYaml(state.edited_file)
    /\ state.edited_file.matches /= <<>>
    /\ steps = 5

(***************************************************************************)
(* The start of the application, checked under SpecStartup.                *)
(***************************************************************************)
\* C36: the application starts in Loading; a step taken in Loading for a
\* message other than Loaded changes neither the application's state nor
\* the files nor the preferences; the step for Loaded leads to the Loaded
\* state on the Settings screen with both copies of the match file and of
\* the configuration empty, no modal and an empty nav_queue, the files as
\* they were; no step leads back to Loading; and a step for a Loaded message
\* taken in the Loaded state changes nothing.
C36_StartupOrdering ==
    /\ egui = "Loading"
    /\ [][/\ (egui = "Loading" /\ last'.type /= "Loaded") =>
                 UNCHANGED <<egui, state, files, egui_data>>
          /\ (egui = "Loading" /\ last'.type = "Loaded") =>
                 /\ egui' = "Loaded"
                 /\ state'.selected_nav = "eg-Settings"
                 /\ state'.selected_file = ""
                 /\ state'.original_file = EspansoYamlDefault
                 /\ state'.edited_file = EspansoYamlDefault
                 /\ state'.original_config = ParsedConfigDefault
                 /\ state'.edited_config = ParsedConfigDefault
                 /\ ~state'.show_modal
                 /\ state'.nav_queue = ""
                 /\ files' = files
          /\ egui /= "Loading" => egui' /= "Loading"
          /\ (egui = "Loaded" /\ last'.type = "Loaded") =>
                 UNCHANGED <<egui, state, files, egui_data>>]_vars

\* A Loaded message was handled in the Loaded state while the match file f1
\* was open with an edit not saved: the file is still open and the edit is
\* still there.
C36_Witness ==
    /\ last.type = "Loaded"
    /\ egui = "Loaded"
    /\ steps >= 3
    /\ state.selected_nav = "f1"
    /\ state.edited_file.matches /= state.original_file.matches

=============================================================================
